---- MODULE Spec2Model ----
(***************************************************************************)
(* Model of the java-manager crate: the discovery engine (src/local.rs),   *)
(* the installation prober (src/utils.rs), the installation record         *)
(* (src/info.rs), the registry JavaManager (src/manager.rs) and the        *)
(* lookup of the Java home (src/lib.rs).                                   *)
(*                                                                         *)
(* Strings that the code takes apart (paths, version strings, PATH) are    *)
(* sequences of one-character strings, so that split, join, parse and the  *)
(* byte-wise comparison are computed as the code computes them.  Strings   *)
(* that are only compared for equality (architecture, supplier labels)     *)
(* are TLA+ strings.  The model is of the non-Windows build (cfg!          *)
(* target_os is decided at compile time), with the Linux table of common   *)
(* installation directories.                                               *)
(*                                                                         *)
(* Option<T> is a sequence of length 0 (None) or 1 (Some(x)); indices are  *)
(* 0-based as in the code.                                                 *)
(***************************************************************************)
EXTENDS Integers, Sequences, FiniteSets, TLC

VARIABLES
    host,               \* the machine: environment, files, executables
    java_installations, \* JavaManager.java_installations
    default_index,      \* JavaManager.default_index
    version_map,        \* JavaManager.version_map
    found,              \* result of the last find_all_java_installations
    info,               \* result of the last get_java_info
    last_op,            \* the operation that produced this state
    added_directly,     \* history: add was called since new()/clear()
    fs,                 \* symbolic links, and what `which java` prints
    walk                \* the running call of follow_symlinks, if any

vars == <<host, java_installations, default_index, version_map,
          found, info, last_op, added_directly, fs, walk>>

\* ---------------------------------------------------------------- bounds

\* Largest number of records the registry is driven to.
MaxInstallations == 3

\* Largest number of lines of a -version text.
MaxLines == 2

\* Largest number of '.'-separated segments of a version string.
MaxSegments == 2

\* ------------------------------------------------------- Option / Result

None == <<>>
Some(x) == <<x>>
IsSome(o) == Len(o) = 1
Unwrap(o) == o[1]

Ok(x) == [ok |-> TRUE, val |-> x]
Err(e) == [ok |-> FALSE, val |-> e]

\* ---------------------------------------------------------------- strings

\* Byte value of the characters the model uses (UTF-8 = ASCII here).
Ord(c) ==
    CASE c = "." -> 46 [] c = "/" -> 47
      [] c = "0" -> 48 [] c = "1" -> 49 [] c = "2" -> 50 [] c = "3" -> 51
      [] c = "4" -> 52 [] c = "5" -> 53 [] c = "6" -> 54 [] c = "7" -> 55
      [] c = "8" -> 56 [] c = "9" -> 57 [] c = ":" -> 58
      [] c = "C" -> 67 [] c = "H" -> 72 [] c = "_" -> 95
      [] c = "a" -> 97 [] c = "b" -> 98 [] c = "c" -> 99 [] c = "d" -> 100
      [] c = "e" -> 101 [] c = "i" -> 105 [] c = "j" -> 106 [] c = "l" -> 108
      [] c = "m" -> 109 [] c = "n" -> 110 [] c = "o" -> 111 [] c = "p" -> 112
      [] c = "r" -> 114 [] c = "s" -> 115 [] c = "t" -> 116 [] c = "u" -> 117
      [] c = "v" -> 118 [] c = "x" -> 120

\* String::cmp: lexicographic on bytes; -1 less, 0 equal, 1 greater.
RECURSIVE StrCmp(_, _)
StrCmp(a, b) ==
    IF a = <<>> /\ b = <<>> THEN 0
    ELSE IF a = <<>> THEN -1
    ELSE IF b = <<>> THEN 1
    ELSE IF Ord(Head(a)) < Ord(Head(b)) THEN -1
    ELSE IF Ord(Head(a)) > Ord(Head(b)) THEN 1
    ELSE StrCmp(Tail(a), Tail(b))

\* str::split(sep): the pieces between the separators; never empty.
RECURSIVE SplitFrom(_, _, _)
SplitFrom(s, sep, cur) ==
    IF s = <<>> THEN <<cur>>
    ELSE IF Head(s) = sep THEN <<cur>> \o SplitFrom(Tail(s), sep, <<>>)
    ELSE SplitFrom(Tail(s), sep, Append(cur, Head(s)))

Split(s, sep) == SplitFrom(s, sep, <<>>)

\* char::is_whitespace on the characters of the output.
IsWhitespace(c) == c \in {" ", "\n", "\t", "\r"}

\* str::trim
RECURSIVE TrimStart(_)
TrimStart(s) ==
    IF s # <<>> /\ IsWhitespace(Head(s)) THEN TrimStart(Tail(s)) ELSE s

RECURSIVE TrimEnd(_)
TrimEnd(s) ==
    IF s # <<>> /\ IsWhitespace(s[Len(s)])
    THEN TrimEnd(SubSeq(s, 1, Len(s) - 1)) ELSE s

trim(s) == TrimEnd(TrimStart(s))

\* std::path::MAIN_SEPARATOR on the modelled (Unix) target.
MAIN_SEPARATOR == "/"

\* Path::join with a relative argument (PathBuf::push): a separator is
\* added unless the base is empty or already ends in one.
Join(base, rel) ==
    IF base = <<>> THEN rel
    ELSE IF base[Len(base)] = MAIN_SEPARATOR THEN base \o rel
    ELSE base \o <<MAIN_SEPARATOR>> \o rel

\* Path::file_stem of a path that names a file: the last component without
\* its extension (the part after the last '.', unless the name starts
\* with its only '.').
LastComponent(p) == Split(p, MAIN_SEPARATOR)[Len(Split(p, MAIN_SEPARATOR))]

\* Position of the last '.' of a name, 0 when it has none.
LastDot(n) ==
    IF \A i \in 1..Len(n) : n[i] # "." THEN 0
    ELSE CHOOSE i \in 1..Len(n) :
            n[i] = "." /\ \A k \in (i + 1)..Len(n) : n[k] # "."

StemAt(n, d) ==
    IF n = <<>> THEN None
    ELSE IF d <= 1 THEN Some(n)
    ELSE Some(SubSeq(n, 1, d - 1))

StemOf(n) == StemAt(n, LastDot(n))

FileStem(p) == StemOf(LastComponent(p))

S_bin == <<"b","i","n">>
S_jre == <<"j","r","e">>
S_java == <<"j","a","v","a">>
S_Contents == <<"C","o","n","t","e","n","t","s">>
S_Home == <<"H","o","m","e">>

\* ------------------------------------------------- JavaInfo (src/info.rs)

\* JavaInfo::new: the record keeps its five arguments.
JavaInfo(name, path, version, architecture, suppliers) ==
    [name |-> name, path |-> path, version |-> version,
     architecture |-> architecture, suppliers |-> suppliers]

IsDigit(c) == c \in {"0","1","2","3","4","5","6","7","8","9"}

DigitVal(c) ==
    CASE c = "0" -> 0 [] c = "1" -> 1 [] c = "2" -> 2 [] c = "3" -> 3
      [] c = "4" -> 4 [] c = "5" -> 5 [] c = "6" -> 6 [] c = "7" -> 7
      [] c = "8" -> 8 [] c = "9" -> 9

\* u32::MAX, in decimal.
U32MaxDigits == <<"4","2","9","4","9","6","7","2","9","5">>

RECURSIVE StripZeros(_)
StripZeros(s) ==
    IF Len(s) > 1 /\ Head(s) = "0" THEN StripZeros(Tail(s)) ELSE s

RECURSIVE DigitsValue(_, _)
DigitsValue(s, acc) ==
    IF s = <<>> THEN acc ELSE DigitsValue(Tail(s), acc * 10 + DigitVal(Head(s)))

\* str::parse::<u32>().ok(): an optional '+', then one or more digits whose
\* value fits in 32 bits (decided on the digits: a value above u32::MAX
\* has more digits than u32::MAX or, with as many, sorts after it).
ParseSignificant(body, sig) ==
    IF body = <<>> THEN None
    ELSE IF \E i \in 1..Len(body) : ~IsDigit(body[i]) THEN None
    ELSE IF Len(sig) > Len(U32MaxDigits) THEN None
    ELSE IF Len(sig) = Len(U32MaxDigits) /\ StrCmp(sig, U32MaxDigits) > 0
         THEN None
    ELSE Some(DigitsValue(sig, 0))

ParseDigits(body) == ParseSignificant(body, StripZeros(body))

ParseU32(s) ==
    ParseDigits(IF s # <<>> /\ Head(s) = "+" THEN Tail(s) ELSE s)

\* Mutant: the legacy 1.x scheme is not recognised.
MajorOfParts_first_only(version_parts) ==
    IF Len(version_parts) = 0 THEN None ELSE ParseU32(version_parts[1])

\* JavaInfo::get_major_version, from the parts of the version string.
MajorOfParts(version_parts) ==
    IF Len(version_parts) = 0 THEN None
    ELSE IF version_parts[1] = <<"1">> /\ Len(version_parts) > 1
         THEN ParseU32(version_parts[2])
         ELSE ParseU32(version_parts[1])

MajorOfVersion(version) == MajorOfParts(Split(version, "."))

get_major_version(java_info) == MajorOfVersion(java_info.version)

\* Option::unwrap_or
UnwrapOr(o, d) == IF IsSome(o) THEN Unwrap(o) ELSE d

\* std::path::Components on the modelled (Unix) target.  A path is a root
\* '/' or a leading '.' (the part before the body) and a body of pieces
\* between separators; the empty piece and the piece "." are no components.
HasRoot(p) == p # <<>> /\ p[1] = MAIN_SEPARATOR

\* Components::include_cur_dir
IncludeCurDir(p) ==
    /\ ~HasRoot(p)
    /\ p # <<>>
    /\ p[1] = "."
    /\ (Len(p) = 1 \/ p[2] = MAIN_SEPARATOR)

\* Components::len_before_body
LenBeforeBody(p) ==
    (IF HasRoot(p) THEN 1 ELSE 0) + (IF IncludeCurDir(p) THEN 1 ELSE 0)

\* Position of the last separator of the body, 0 when it has none.
LastSeparator(p, start) ==
    IF \A i \in (start + 1)..Len(p) : p[i] # MAIN_SEPARATOR THEN 0
    ELSE CHOOSE i \in (start + 1)..Len(p) :
            /\ p[i] = MAIN_SEPARATOR
            /\ \A k \in (i + 1)..Len(p) : p[k] # MAIN_SEPARATOR

\* Components::parse_next_component_back: the last piece of the body and
\* the path without it (and without the separator before it).
BackPiece(p, start, sep) ==
    IF sep = 0 THEN SubSeq(p, start + 1, Len(p)) ELSE SubSeq(p, sep + 1, Len(p))

BackRest(p, start, sep) ==
    IF sep = 0 THEN SubSeq(p, 1, start) ELSE SubSeq(p, 1, sep - 1)

\* Components::parse_single_component
IsComponent(piece) == piece # <<>> /\ piece # <<".">>

\* Components::trim_right
RECURSIVE TrimRight(_, _)
TrimRightAt(p, start, sep) ==
    IF IsComponent(BackPiece(p, start, sep)) THEN p
    ELSE TrimRight(BackRest(p, start, sep), start)

TrimRight(p, start) ==
    IF Len(p) > start THEN TrimRightAt(p, start, LastSeparator(p, start)) ELSE p

\* Path::parent: Components::next_back, then as_path of what is left.
RECURSIVE PopBack(_, _)
PopBackAt(p, start, sep) ==
    IF IsComponent(BackPiece(p, start, sep))
    THEN Some(TrimRight(BackRest(p, start, sep), start))
    ELSE PopBack(BackRest(p, start, sep), start)

PopBack(p, start) ==
    IF Len(p) > start THEN PopBackAt(p, start, LastSeparator(p, start))
    ELSE IF HasRoot(p) THEN None
    ELSE IF IncludeCurDir(p) THEN Some(<<>>)
    ELSE None

Parent(p) == PopBack(p, LenBeforeBody(p))

\* The last component of a path, None when it has no body component.
RECURSIVE BackComponent(_, _)
BackComponentAt(p, start, sep) ==
    IF IsComponent(BackPiece(p, start, sep)) THEN Some(BackPiece(p, start, sep))
    ELSE BackComponent(BackRest(p, start, sep), start)

BackComponent(p, start) ==
    IF Len(p) > start THEN BackComponentAt(p, start, LastSeparator(p, start))
    ELSE None

\* Path::ends_with, for a child of one component.
EndsWith(p, child) == BackComponent(p, LenBeforeBody(p)) = Some(child)

\* `if let Some(java_home) = parent.parent() { return java_home }`
JavaHomeOfGrandparent(path, java_home) ==
    IF IsSome(java_home) THEN Unwrap(java_home) ELSE path

\* Mutant: only the executable name is removed.
JavaHomeOfParent_name_only(path, parent) ==
    IF IsSome(parent) THEN Unwrap(parent) ELSE path

\* The body of get_java_home, given path.parent().
JavaHomeOfParent(path, parent) ==
    IF IsSome(parent) /\ EndsWith(Unwrap(parent), S_bin)
    THEN JavaHomeOfGrandparent(path, Parent(Unwrap(parent)))
    ELSE path

\* JavaInfo::get_java_home
get_java_home(java_info) == JavaHomeOfParent(java_info.path, Parent(java_info.path))

\* ------------------------------------------------------------- the host

\* Executables and other files a host may hold.  A relative path stands
\* for a file that exists relative to the working directory.
F_j17 == <<"/","u","s","r","/","l","i","b","/","j","v","m","/","j","1","7","/","b","i","n","/","j","a","v","a">>
F_j17b == <<"/","u","s","r","/","l","i","b","/","j","v","m","/","j","1","7","b","/","b","i","n","/","j","a","v","a">>
F_j8 == <<"/","u","s","r","/","l","i","b","/","j","v","m","/","j","8","/","b","i","n","/","j","a","v","a">>
F_j8jre == <<"/","u","s","r","/","l","i","b","/","j","v","m","/","j","8","/","j","r","e","/","b","i","n","/","j","a","v","a">>
F_optjre == <<"/","o","p","t","/","j","a","v","a","/","j","r","e","/","b","i","n","/","j","a","v","a">>
F_optbin == <<"/","o","p","t","/","j","a","v","a","/","b","i","n","/","j","a","v","a">>
F_usrbin == <<"/","u","s","r","/","b","i","n","/","j","a","v","a">>
F_rel == <<"b","i","n","/","j","a","v","a">>
F_reldir == <<"u","s","r","/","j","a","v","a">>
F_jdk == <<"/","u","s","r","/","j","a","v","a","/","j","d","k","/","b","i","n","/","j","a","v","a">>
F_tmp == <<"/","o","p","t","/","t","m","p","/","b","i","n","/","j","a","v","a">>
F_local == <<"/","u","s","r","/","l","o","c","a","l","/","j","a","v","a","/","j","d","k","/","b","i","n","/","j","a","v","a">>
F_app == <<"/","o","p","t","/","t","m","p","/","C","o","n","t","e","n","t","s","/","H","o","m","e","/","b","i","n","/","j","a","v","a">>

FileUniverse ==
    {F_j17, F_j17b, F_j8, F_j8jre, F_optjre, F_optbin, F_usrbin, F_rel, F_reldir,
     F_jdk, F_tmp, F_local, F_app}

V_17 == <<"1","7",".","0",".","1">>
V_8 == <<"1",".","8",".","0","_","3","1","2">>
V_11 == <<"1","1",".","0",".","1","2">>
V_invalid == <<"i","n","v","a","l","i","d">>

\* What running an executable gives: whether Command::output() succeeds
\* (spawn), whether the standard error of -version is UTF-8 (ver_utf8), its
\* lines (ver_lines), whether -d64 / -d32 exit with status zero, whether
\* the standard error of -XshowSettings:properties is UTF-8 (props_utf8),
\* its lines as the architecture scan reads them (props_lines) and the
\* value of its java.vendor line.
Exe(spawn, ver_utf8, ver_lines, d64, d32, props_utf8, props_lines, java_vendor) ==
    [spawn |-> spawn, ver_utf8 |-> ver_utf8,
     ver_lines |-> ver_lines, d64 |-> d64, d32 |-> d32, props_utf8 |-> props_utf8,
     props_lines |-> props_lines, java_vendor |-> java_vendor]

NoSpawn == Exe(FALSE, FALSE, <<>>, FALSE, FALSE, FALSE, <<>>, None)

\* The line of -version output that states the version.
VersionLine(first_word, version) ==
    first_word \o <<" ","v","e","r","s","i","o","n"," ","\"">> \o version \o <<"\"">>

W_java == <<"j","a","v","a">>
W_openjdk == <<"o","p","e","n","j","d","k">>

\* Other lines of -version output, cut down to the words the scans look at.
L_java == <<"j","a","v","a"," ","1","7">>
L_openjdk == <<"o","p","e","n","j","d","k"," ","1","7">>
L_adopt == <<"A","d","o","p","t","O","p","e","n","J","D","K">>
L_adoptium == <<"A","d","o","p","t","i","u","m">>
L_oracle == <<"O","r","a","c","l","e">>
L_azul == <<"A","z","u","l">>
L_graalvm == <<"G","r","a","a","l","V","M">>

\* Lines of -XshowSettings:properties output.
PL_amd64 == <<"o","s",".","a","r","c","h"," ","="," ","a","m","d","6","4">>
PL_x86 == <<"o","s",".","a","r","c","h"," ","="," ","x","8","6">>
PL_name == <<"o","s",".","n","a","m","e"," ","="," ","L","6","4">>
PL_heading == <<"o","s",".","a","r","c","h",":">>

ExeTable(p) ==
    CASE p = F_j17 ->
           Exe(TRUE, TRUE, <<VersionLine(W_openjdk, V_17)>>,
               FALSE, FALSE, TRUE, <<PL_name, PL_amd64>>, None)
      [] p = F_j17b ->
           Exe(TRUE, TRUE, <<VersionLine(W_java, V_17), L_azul>>,
               FALSE, FALSE, TRUE, <<PL_name, PL_amd64>>, None)
      [] p = F_j8 ->
           Exe(TRUE, TRUE, <<L_openjdk>>, TRUE, FALSE, TRUE, <<>>, None)
      [] p = F_j8jre ->
           Exe(TRUE, TRUE, <<VersionLine(W_java, V_8), L_oracle>>,
               TRUE, FALSE, TRUE, <<>>, None)
      [] p = F_optjre ->
           Exe(TRUE, TRUE, <<VersionLine(W_java, V_17)>>,
               FALSE, FALSE, TRUE, <<>>, Some("Acme"))
      [] p = F_optbin ->
           Exe(TRUE, TRUE, <<VersionLine(W_java, V_invalid), L_graalvm>>,
               FALSE, TRUE, TRUE, <<>>, None)
      [] p = F_usrbin ->
           Exe(TRUE, TRUE, <<VersionLine(W_java, V_11)>>,
               FALSE, FALSE, TRUE, <<PL_x86>>, None)
      [] p = F_rel ->
           Exe(TRUE, TRUE, <<VersionLine(W_openjdk, V_11)>>,
               FALSE, FALSE, TRUE, <<PL_name, PL_amd64>>, None)
      [] p = F_jdk ->
           Exe(TRUE, TRUE, <<VersionLine(W_openjdk, V_11)>>,
               FALSE, FALSE, FALSE, <<>>, None)
      [] p = F_tmp ->
           Exe(TRUE, FALSE, <<>>, TRUE, FALSE, TRUE, <<>>, None)
      [] p = F_local ->
           Exe(TRUE, TRUE, <<VersionLine(W_java, V_8)>>,
               TRUE, FALSE, FALSE, <<>>, None)
      [] p = F_app ->
           Exe(TRUE, TRUE, <<VersionLine(W_java, V_8)>>,
               TRUE, FALSE, TRUE, <<>>, None)
      [] OTHER -> NoSpawn

Behaviour(h, p) == IF p \in h.files THEN ExeTable(p) ELSE NoSpawn

IsPrefix(a, b) == Len(a) <= Len(b) /\ SubSeq(b, 1, Len(a)) = a

Contains(s, sub) ==
    \E i \in 0..(Len(s) - Len(sub)) : SubSeq(s, i + 1, i + Len(sub)) = sub

\* Path::is_dir: some file lies below the path.
IsDir(h, p) == \E f \in h.files : IsPrefix(p \o <<MAIN_SEPARATOR>>, f)

\* Path::exists: a file or a directory.
Exists(h, p) == p \in h.files \/ IsDir(h, p)

\* std::fs::read_dir(root): the names directly below root (empty when root
\* does not exist: the Err is skipped by `if let Ok`).
ReadDir(h, root) ==
    {Split(SubSeq(f, Len(root) + 2, Len(f)), MAIN_SEPARATOR)[1] :
        f \in {g \in h.files : IsPrefix(root \o <<MAIN_SEPARATOR>>, g)}}

\* ---------------------------------------------- the prober (src/utils.rs)

\* The test that opens the loop body: the line, as it stands, starts
\* with "java version" or "openjdk version" or contains `version "`.
IsVersionLine(line) ==
    \/ IsPrefix(W_java \o <<" ","v","e","r","s","i","o","n">>, line)
    \/ IsPrefix(W_openjdk \o <<" ","v","e","r","s","i","o","n">>, line)
    \/ Contains(line, <<"v","e","r","s","i","o","n"," ","\"">>)

\* str::find(c) from position i on: the position (counted from 1) of the
\* first c, None when there is none.
RECURSIVE FindChar(_, _, _)
FindChar(s, c, i) ==
    IF i > Len(s) THEN None
    ELSE IF s[i] = c THEN Some(i)
    ELSE FindChar(s, c, i + 1)

\* &line[start + 1..start + 1 + end], when the closing quote is found.
QuotedBetween(line, start, end) ==
    IF IsSome(end) THEN Some(SubSeq(line, start + 1, Unwrap(end) - 1)) ELSE None

QuotedAfter(line, start) ==
    IF IsSome(start)
    THEN QuotedBetween(line, Unwrap(start), FindChar(line, "\"", Unwrap(start) + 1))
    ELSE None

\* The text between the first two double quotes of the line.
Quoted(line) == QuotedAfter(line, FindChar(line, "\"", 1))

\* str::split_whitespace: the words of the line.
RECURSIVE WordsFrom(_, _)
WordsFrom(s, cur) ==
    IF s = <<>> THEN (IF cur = <<>> THEN <<>> ELSE <<cur>>)
    ELSE IF IsWhitespace(Head(s))
    THEN (IF cur = <<>> THEN <<>> ELSE <<cur>>) \o WordsFrom(Tail(s), <<>>)
    ELSE WordsFrom(Tail(s), Append(cur, Head(s)))

split_whitespace(s) == WordsFrom(s, <<>>)

\* str::trim_matches(c)
RECURSIVE TrimStartMatches(_, _)
TrimStartMatches(s, c) ==
    IF s # <<>> /\ Head(s) = c THEN TrimStartMatches(Tail(s), c) ELSE s

RECURSIVE TrimEndMatches(_, _)
TrimEndMatches(s, c) ==
    IF s # <<>> /\ s[Len(s)] = c
    THEN TrimEndMatches(SubSeq(s, 1, Len(s) - 1), c) ELSE s

trim_matches(s, c) == TrimEndMatches(TrimStartMatches(s, c), c)

\* `for (i, part) in parts.iter().enumerate()`: the word after the first
\* word that contains "version" and has a word after it.
RECURSIVE AfterVersionWord(_, _)
AfterVersionWord(parts, i) ==
    IF i >= Len(parts) THEN None
    ELSE IF Contains(parts[i + 1], <<"v","e","r","s","i","o","n">>)
            /\ i + 1 < Len(parts)
    THEN Some(trim_matches(parts[i + 2], "\""))
    ELSE AfterVersionWord(parts, i + 1)

\* Last resort: the third word.
ThirdWord(parts) ==
    IF Len(parts) >= 3 THEN Some(trim_matches(parts[3], "\"")) ELSE None

TokenOfWords(parts, after) == IF IsSome(after) THEN after ELSE ThirdWord(parts)

\* The three extractions on the trimmed line, given the outcome of the
\* first.
TokenOfTrimmed(line, quoted) ==
    IF IsSome(quoted) THEN quoted
    ELSE TokenOfWords(split_whitespace(line),
                      AfterVersionWord(split_whitespace(line), 0))

\* One round of the loop over the lines: the version it returns, None when
\* the loop goes on.
TokenOfLine(line) ==
    IF IsVersionLine(line)
    THEN TokenOfTrimmed(trim(line), Quoted(trim(line))) ELSE None

\* Mutant: a version line that gives no token ends the scan.
RECURSIVE VersionOfLines(_)
VersionOrNext_stopping(line, version, rest) ==
    IF IsSome(version) \/ IsVersionLine(line) THEN version
    ELSE VersionOfLines(rest)

\* `for line in output_str.lines()`: the token of the first line that
\* gives one.
VersionOrNext(line, version, rest) ==
    IF IsSome(version) THEN version ELSE VersionOfLines(rest)

VersionOfLines(lines) ==
    IF lines = <<>> THEN None
    ELSE VersionOrNext(Head(lines), TokenOfLine(Head(lines)), Tail(lines))

\* The end of get_java_version, given the outcome of the scan.
VersionFound(version) ==
    IF version = None THEN Err("Could not determine Java version")
    ELSE Ok(Unwrap(version))

\* get_java_version on an executable that behaves as b.
VersionOf(b) ==
    IF ~b.spawn THEN Err("Failed to run Java command")
    ELSE IF ~b.ver_utf8 THEN Err("Utf8Error")
    ELSE VersionFound(VersionOfLines(b.ver_lines))

get_java_version(h, java_path) == VersionOf(Behaviour(h, java_path))

\* The body of `if line.contains("os.arch")`: the line is cut at every
\* "=" and classifies when that gives two parts, by the trimmed second.
ArchOfParts(parts) ==
    IF Len(parts) = 2
    THEN IF Contains(trim(parts[2]), <<"6","4">>)
         THEN Some("64-bit") ELSE Some("32-bit")
    ELSE None

\* One round of the loop over the property lines: the classification the
\* line returns, None when the loop goes on.
ArchOfLine(line) ==
    IF Contains(line, <<"o","s",".","a","r","c","h">>)
    THEN ArchOfParts(Split(line, "=")) ELSE None

\* `for line in output_str.lines()` of the third strategy.
RECURSIVE ArchOfLines(_)
ArchOrNext(arch, rest) ==
    IF IsSome(arch) THEN arch ELSE ArchOfLines(rest)

ArchOfLines(lines) ==
    IF lines = <<>> THEN None
    ELSE ArchOrNext(ArchOfLine(Head(lines)), Tail(lines))

\* Mutant: the -d32 run is tried before the -d64 run.
FlagStrategies_d32_first(b) ==
    IF b.d32 THEN Some("32-bit")
    ELSE IF b.d64 THEN Some("64-bit")
    ELSE None

\* The first two strategies: the -d64 run, then the -d32 run.
FlagStrategies(b) ==
    IF b.d64 THEN Some("64-bit")
    ELSE IF b.d32 THEN Some("32-bit")
    ELSE None

\* The third strategy and the fall-through.
ArchitectureAfterFlags(b, by_flag) ==
    IF IsSome(by_flag) THEN Ok(Unwrap(by_flag))
    ELSE IF ~b.props_utf8 THEN Err("Utf8Error")
    ELSE Ok(UnwrapOr(ArchOfLines(b.props_lines), "Unknown"))

\* get_java_architecture on an executable that behaves as b.
ArchitectureOf(b) ==
    IF ~b.spawn THEN Err("Failed to run Java command")
    ELSE ArchitectureAfterFlags(b, FlagStrategies(b))

get_java_architecture(h, java_path) == ArchitectureOf(Behaviour(h, java_path))

\* char::to_lowercase on the letters of the lines.
LowerChar(c) ==
    CASE c = "A" -> "a" [] c = "B" -> "b" [] c = "C" -> "c" [] c = "D" -> "d"
      [] c = "E" -> "e" [] c = "F" -> "f" [] c = "G" -> "g" [] c = "H" -> "h"
      [] c = "I" -> "i" [] c = "J" -> "j" [] c = "K" -> "k" [] c = "L" -> "l"
      [] c = "M" -> "m" [] c = "N" -> "n" [] c = "O" -> "o" [] c = "P" -> "p"
      [] c = "Q" -> "q" [] c = "R" -> "r" [] c = "S" -> "s" [] c = "T" -> "t"
      [] c = "U" -> "u" [] c = "V" -> "v" [] c = "W" -> "w" [] c = "X" -> "x"
      [] c = "Y" -> "y" [] c = "Z" -> "z" [] OTHER -> c

\* str::to_lowercase
to_lowercase(s) == [i \in 1..Len(s) |-> LowerChar(s[i])]

M_openjdk == <<"o","p","e","n","j","d","k">>
M_adopt == <<"a","d","o","p","t">>
M_oracle == <<"o","r","a","c","l","e">>
M_ibm == <<"i","b","m">>
M_azul == <<"a","z","u","l">>
M_adoptopenjdk == <<"a","d","o","p","t","o","p","e","n","j","d","k">>
M_adoptium == <<"a","d","o","p","t","i","u","m">>
M_amazon == <<"a","m","a","z","o","n">>
M_corretto == <<"c","o","r","r","e","t","t","o">>
M_microsoft == <<"m","i","c","r","o","s","o","f","t">>
M_sap == <<"s","a","p">>
M_graalvm == <<"g","r","a","a","l","v","m">>
M_bellsoft == <<"b","e","l","l","s","o","f","t">>

\* The if-else chain of the vendor scan on one lower-cased line: the label
\* it returns, None when the loop goes on to the next line.
VendorOfLine(line_lower) ==
    IF Contains(line_lower, M_openjdk) /\ ~Contains(line_lower, M_adopt)
    THEN Some("OpenJDK")
    ELSE IF Contains(line_lower, M_oracle) THEN Some("Oracle")
    ELSE IF Contains(line_lower, M_ibm) THEN Some("IBM")
    ELSE IF Contains(line_lower, M_azul) THEN Some("Azul")
    ELSE IF Contains(line_lower, M_adoptopenjdk) \/ Contains(line_lower, M_adoptium)
    THEN Some("AdoptOpenJDK/Adoptium")
    ELSE IF Contains(line_lower, M_amazon) \/ Contains(line_lower, M_corretto)
    THEN Some("Amazon Corretto")
    ELSE IF Contains(line_lower, M_microsoft) THEN Some("Microsoft")
    ELSE IF Contains(line_lower, M_sap) THEN Some("SAP")
    ELSE IF Contains(line_lower, M_graalvm) THEN Some("GraalVM")
    ELSE IF Contains(line_lower, M_bellsoft) THEN Some("BellSoft Liberica")
    ELSE None

\* `for line in output_str.lines()`: the label of the first line that has
\* one.
RECURSIVE VendorOfLines(_)
VendorOrNext(vendor, rest) ==
    IF IsSome(vendor) THEN vendor ELSE VendorOfLines(rest)

VendorOfLines(lines) ==
    IF lines = <<>> THEN None
    ELSE VendorOrNext(VendorOfLine(to_lowercase(Head(lines))), Tail(lines))

\* The rest of get_java_suppliers, given the outcome of the marker scan.
SuppliersAfterScan(b, vendor) ==
    IF IsSome(vendor) THEN Ok(Unwrap(vendor))
    ELSE IF ~b.props_utf8 THEN Err("Utf8Error")
    ELSE IF b.java_vendor # None THEN Ok(Unwrap(b.java_vendor))
    ELSE Ok("Unknown")

\* get_java_suppliers on an executable that behaves as b.
SuppliersOf(b) ==
    IF ~b.spawn THEN Err("Failed to run Java command")
    ELSE IF ~b.ver_utf8 THEN Err("Utf8Error")
    ELSE SuppliersAfterScan(b, VendorOfLines(b.ver_lines))

get_java_suppliers(h, java_path) == SuppliersOf(Behaviour(h, java_path))

\* Mutant: a failed architecture or vendor sub-probe degrades to "Unknown".
AssembleInfo_degrading(java_exec_path, version, architecture, suppliers) ==
    IF ~version.ok THEN version
    ELSE Ok(JavaInfo(UnwrapOr(FileStem(java_exec_path), S_java),
                     java_exec_path, version.val,
                     IF architecture.ok THEN architecture.val ELSE "Unknown",
                     IF suppliers.ok THEN suppliers.val ELSE "Unknown"))

\* The body of get_java_info, given the results of the three sub-probes:
\* each `?` returns the sub-probe's error.
AssembleInfo(java_exec_path, version, architecture, suppliers) ==
    IF ~version.ok THEN version
    ELSE IF ~architecture.ok THEN architecture
    ELSE IF ~suppliers.ok THEN suppliers
    ELSE Ok(JavaInfo(UnwrapOr(FileStem(java_exec_path), S_java),
                     java_exec_path, version.val, architecture.val,
                     suppliers.val))

get_java_info(h, java_exec_path) ==
    AssembleInfo(java_exec_path,
                 get_java_version(h, java_exec_path),
                 get_java_architecture(h, java_exec_path),
                 get_java_suppliers(h, java_exec_path))

\* ------------------------------------- the discovery engine (src/local.rs)

\* get_platform_specific_java_paths, Linux/Unix branch.
get_platform_specific_java_paths ==
    << <<"/","u","s","r","/","l","i","b","/","j","v","m">>,
       <<"/","u","s","r","/","j","a","v","a">>,
       <<"/","o","p","t","/","j","a","v","a">>,
       <<"/","u","s","r","/","l","o","c","a","l","/","j","a","v","a">>,
       <<"/","o","p","t">>,
       <<"/","u","s","r","/","l","i","b">> >>

\* The records collected so far carry the phase that found them (1 the
\* JAVA_HOME check, 2 the common directories, 3 PATH); the phase is history
\* only and is dropped from the result.
Tagged(java_info, phase) == [info |-> java_info, phase |-> phase]

\* Mutant: the duplicate check is missing.
AnyPath_never(java_installations_, path) == FALSE

\* java_installations.iter().any(|i| i.path == path)
AnyPath(java_installations_, path) ==
    \E i \in 1..Len(java_installations_) : java_installations_[i].info.path = path

\* Mutant: a failed probe yields a default record instead of nothing.
OkValue_or_default(r) ==
    Some(IF r.ok THEN r.val ELSE JavaInfo(<<>>, <<>>, <<>>, "Unknown", "Unknown"))

\* `if let Ok(info) = ...`: the value of an Ok, nothing of an Err.
OkValue(r) == IF r.ok THEN Some(r.val) ELSE None

\* `if path.exists() { if let Ok(info) = get_java_info(path) { .. } }`
ProbeIfExists(h, exec_path) ==
    IF Exists(h, exec_path) THEN OkValue(get_java_info(h, exec_path)) ELSE None

\* java_installations.push(info), for the info of a successful probe.
PushFound(acc, java_info, phase) ==
    IF IsSome(java_info) THEN Append(acc, Tagged(Unwrap(java_info), phase))
    ELSE acc

\* `if !java_installations.iter().any(..) { java_installations.push(info) }`
PushIfNew(acc, java_info, phase) ==
    IF IsSome(java_info) /\ ~AnyPath(acc, Unwrap(java_info).path)
    THEN Append(acc, Tagged(Unwrap(java_info), phase))
    ELSE acc

\* format!("{}/bin/java", java_home)
JavaHomeExec(java_home) == java_home \o <<"/">> \o S_bin \o <<"/">> \o S_java

\* The first block of find_all_java_installations: JAVA_HOME.
JavaHomePhase(h) ==
    IF h.java_home = None THEN <<>>
    ELSE IF Unwrap(h.java_home) = <<>> THEN <<>>
    ELSE PushFound(<<>>, ProbeIfExists(h, JavaHomeExec(Unwrap(h.java_home))), 1)

\* try_get_java_info_from_dir, non-Windows candidates.
possible_exec_paths(dir_path) ==
    << Join(Join(dir_path, S_bin), S_java),
       Join(Join(Join(dir_path, S_jre), S_bin), S_java),
       Join(Join(Join(Join(dir_path, S_Contents), S_Home), S_bin), S_java) >>

\* The loop of try_get_java_info_from_dir: the first candidate that exists
\* and probes successfully.
RECURSIVE FirstProbed(_, _)
\* Mutant: a candidate that exists ends the loop, whatever its probe gives.
FirstOr_stopping(java_info, h, path, rest) ==
    IF IsSome(java_info) \/ Exists(h, path) THEN java_info
    ELSE FirstProbed(h, rest)

FirstOr(java_info, h, path, rest) ==
    IF IsSome(java_info) THEN java_info ELSE FirstProbed(h, rest)

FirstProbed(h, paths) ==
    IF paths = <<>> THEN None
    ELSE FirstOr(ProbeIfExists(h, Head(paths)), h, Head(paths), Tail(paths))

try_get_java_info_from_dir(h, dir_path) ==
    FirstProbed(h, possible_exec_paths(dir_path))

\* The body of the loop over the entries of a common directory.
ScanEntry(h, path, acc) ==
    IF IsDir(h, path) THEN PushIfNew(acc, try_get_java_info_from_dir(h, path), 2)
    ELSE acc

\* The loop over the entries of one common directory, in the order
\* read_dir yields them.
RECURSIVE ScanEntries(_, _, _, _)
ScanEntries(h, base_path, entries, acc) ==
    IF entries = <<>> THEN acc
    ELSE ScanEntries(h, base_path, Tail(entries),
                     ScanEntry(h, Join(base_path, Head(entries)), acc))

\* The loop over the common directories; order[i] is the order in which
\* read_dir yields the entries of the i-th directory.
RECURSIVE ScanCommonPaths(_, _, _, _)
ScanCommonPaths(h, order, i, acc) ==
    IF i > Len(get_platform_specific_java_paths) THEN acc
    ELSE ScanCommonPaths(h, order, i + 1,
            ScanEntries(h, get_platform_specific_java_paths[i], order[i], acc))

\* find_java_in_path: the loop over the pieces of PATH.
RECURSIVE ScanPathDirs(_, _, _)
ScanPathDirs(h, path_dirs, acc) ==
    IF path_dirs = <<>> THEN acc
    ELSE ScanPathDirs(h, Tail(path_dirs),
            PushIfNew(acc, ProbeIfExists(h, Join(Head(path_dirs), S_java)), 3))

\* path_var.split(std::path::MAIN_SEPARATOR)
PathDirs(path_var) == Split(path_var, MAIN_SEPARATOR)

find_java_in_path(h, java_installations_) ==
    IF h.path_var = None THEN java_installations_
    ELSE ScanPathDirs(h, PathDirs(Unwrap(h.path_var)), java_installations_)

\* u32::cmp
NumCmp(a, b) == IF a < b THEN -1 ELSE IF a > b THEN 1 ELSE 0

\* Ordering::then_with
ThenWith(first, second) == IF first # 0 THEN first ELSE second

\* Mutant: the versions are compared the other way round.
SortCompare_ascending(a, b) ==
    ThenWith(NumCmp(UnwrapOr(get_major_version(a.info), 0),
                    UnwrapOr(get_major_version(b.info), 0)),
             StrCmp(a.info.path, b.info.path))

\* Mutant: no tie-break by path.
SortCompare_version_only(a, b) ==
    NumCmp(UnwrapOr(get_major_version(b.info), 0),
           UnwrapOr(get_major_version(a.info), 0))

\* The comparator given to sort_by.
SortCompare(a, b) ==
    ThenWith(NumCmp(UnwrapOr(get_major_version(b.info), 0),
                    UnwrapOr(get_major_version(a.info), 0)),
             StrCmp(a.info.path, b.info.path))

\* slice::sort_by is a stable sort: each element goes behind the elements
\* that do not compare greater than it.
FirstGreater(sorted, x) ==
    IF \A i \in 1..Len(sorted) : SortCompare(sorted[i], x) <= 0
    THEN Len(sorted) + 1
    ELSE CHOOSE i \in 1..Len(sorted) :
            /\ SortCompare(sorted[i], x) > 0
            /\ \A k \in 1..(i - 1) : SortCompare(sorted[k], x) <= 0

InsertAt(sorted, x, at) ==
    SubSeq(sorted, 1, at - 1) \o <<x>> \o SubSeq(sorted, at, Len(sorted))

InsertSorted(sorted, x) == InsertAt(sorted, x, FirstGreater(sorted, x))

RECURSIVE SortBy(_, _)
SortBy(list, sorted) ==
    IF list = <<>> THEN sorted
    ELSE SortBy(Tail(list), InsertSorted(sorted, Head(list)))

\* The list of find_all_java_installations before and after the sort, with
\* the history tags.
Collected(h, order) ==
    find_java_in_path(h, ScanCommonPaths(h, order, 1, JavaHomePhase(h)))

Discovered(h, order) == SortBy(Collected(h, order), <<>>)

InfosOf(d) == [i \in 1..Len(d) |-> d[i].info]

\* History of a call: the phase that found each record of the result.
PhasesOf(d) == [i \in 1..Len(d) |-> d[i].phase]

\* What a call of find_all_java_installations leaves: its return value,
\* Ok(java_installations), and the history of the records.
Returned(d) == [result |-> Ok(InfosOf(d)), phases |-> PhasesOf(d)]

find_all_java_installations(h, order) == Returned(Discovered(h, order))

\* The orders in which read_dir may yield the entries of each directory.
Perms(S) ==
    {s \in [1..Cardinality(S) -> S] :
        \A i, j \in 1..Cardinality(S) : i # j => s[i] # s[j]}

RECURSIVE OrdersFrom(_, _)
OrdersFrom(h, i) ==
    IF i > Len(get_platform_specific_java_paths) THEN {<<>>}
    ELSE {<<p>> \o rest :
            p \in Perms(ReadDir(h, get_platform_specific_java_paths[i])),
            rest \in OrdersFrom(h, i + 1)}

Orders(h) == OrdersFrom(h, 1)

\* ------------------------------------------- the registry (src/manager.rs)

\* A JavaManager value.
Manager(list, default, map) ==
    [java_installations |-> list, default_index |-> default, version_map |-> map]

\* JavaManager::new
new == Manager(<<>>, None, <<>>)

\* Mutant: the new position replaces the bucket.
EntryPush_replacing(map, version, index) ==
    [k \in DOMAIN map \cup {version} |->
        IF k = version THEN <<index>> ELSE map[k]]

\* Mutant: the new position goes to the front of the bucket.
EntryPush_front(map, version, index) ==
    IF version \in DOMAIN map
    THEN [map EXCEPT ![version] = <<index>> \o @]
    ELSE [k \in DOMAIN map \cup {version} |->
             IF k = version THEN <<index>> ELSE map[k]]

\* version_map.entry(version).or_insert_with(Vec::new).push(index)
EntryPush(map, version, index) ==
    IF version \in DOMAIN map
    THEN [map EXCEPT ![version] = Append(@, index)]
    ELSE [k \in DOMAIN map \cup {version} |->
             IF k = version THEN <<index>> ELSE map[k]]

\* Mutant: add leaves the default as it is.
AddAt_keeping_default(m, java_info, index, version) ==
    Manager(Append(m.java_installations, java_info),
            m.default_index,
            IF IsSome(version)
            THEN EntryPush(m.version_map, Unwrap(version), index)
            ELSE m.version_map)

\* Mutant: every add makes the new record the default.
AddAt_always_default(m, java_info, index, version) ==
    Manager(Append(m.java_installations, java_info),
            Some(index),
            IF IsSome(version)
            THEN EntryPush(m.version_map, Unwrap(version), index)
            ELSE m.version_map)

\* The body of JavaManager::add, given the index and the major version.
AddAt(m, java_info, index, version) ==
    Manager(Append(m.java_installations, java_info),
            IF m.default_index = None THEN Some(index) ELSE m.default_index,
            IF IsSome(version)
            THEN EntryPush(m.version_map, Unwrap(version), index)
            ELSE m.version_map)

\* JavaManager::add
mgr_add(m, java_info) ==
    AddAt(m, java_info, Len(m.java_installations), get_major_version(java_info))

\* JavaManager::get
get(m, index) ==
    IF index < Len(m.java_installations)
    THEN Some(m.java_installations[index + 1]) ELSE None

\* Mutant: the last position of the bucket is looked up.
get_by_version_last(m, version) ==
    IF version \in DOMAIN m.version_map /\ m.version_map[version] # <<>>
    THEN get(m, m.version_map[version][Len(m.version_map[version])]) ELSE None

\* JavaManager::get_by_version
get_by_version(m, version) ==
    IF version \in DOMAIN m.version_map /\ m.version_map[version] # <<>>
    THEN get(m, m.version_map[version][1]) ELSE None

RECURSIVE FilterMapGet(_, _)
FilterMapGet(m, indices) ==
    IF indices = <<>> THEN <<>>
    ELSE get(m, Head(indices)) \o FilterMapGet(m, Tail(indices))

\* JavaManager::get_all_by_version
get_all_by_version(m, version) ==
    IF version \in DOMAIN m.version_map
    THEN FilterMapGet(m, m.version_map[version]) ELSE <<>>

\* JavaManager::get_default
get_default(m) ==
    IF m.default_index = None THEN None ELSE get(m, Unwrap(m.default_index))

\* Mutant: an index out of bounds drops the default.
mgr_set_default_resetting(m, index) ==
    IF index < Len(m.java_installations)
    THEN [m |-> [m EXCEPT !.default_index = Some(index)], ret |-> TRUE]
    ELSE [m |-> [m EXCEPT !.default_index = None], ret |-> FALSE]

\* Mutant: the bound check admits index = len.
mgr_set_default_inclusive(m, index) ==
    IF index <= Len(m.java_installations)
    THEN [m |-> [m EXCEPT !.default_index = Some(index)], ret |-> TRUE]
    ELSE [m |-> m, ret |-> FALSE]

\* JavaManager::set_default: the new manager and the returned flag.
mgr_set_default(m, index) ==
    IF index < Len(m.java_installations)
    THEN [m |-> [m EXCEPT !.default_index = Some(index)], ret |-> TRUE]
    ELSE [m |-> m, ret |-> FALSE]

\* Mutant: the last position of the bucket is taken.
mgr_set_default_by_version_last(m, version) ==
    IF version \in DOMAIN m.version_map /\ m.version_map[version] # <<>>
    THEN [m |-> [m EXCEPT !.default_index =
                     Some(m.version_map[version][Len(m.version_map[version])])],
          ret |-> TRUE]
    ELSE [m |-> m, ret |-> FALSE]

\* JavaManager::set_default_by_version
mgr_set_default_by_version(m, version) ==
    IF version \in DOMAIN m.version_map /\ m.version_map[version] # <<>>
    THEN [m |-> [m EXCEPT !.default_index = Some(m.version_map[version][1])],
          ret |-> TRUE]
    ELSE [m |-> m, ret |-> FALSE]

\* The characters of a vendor label (the labels are kept as whole strings
\* in the records).
Chars(label) ==
    CASE label = "OpenJDK" ->
           <<"O","p","e","n","J","D","K">>
      [] label = "Oracle" ->
           <<"O","r","a","c","l","e">>
      [] label = "IBM" ->
           <<"I","B","M">>
      [] label = "Azul" ->
           <<"A","z","u","l">>
      [] label = "AdoptOpenJDK/Adoptium" ->
           <<"A","d","o","p","t","O","p","e","n","J","D","K","/","A","d","o","p","t","i","u","m">>
      [] label = "Amazon Corretto" ->
           <<"A","m","a","z","o","n"," ","C","o","r","r","e","t","t","o">>
      [] label = "Microsoft" ->
           <<"M","i","c","r","o","s","o","f","t">>
      [] label = "SAP" ->
           <<"S","A","P">>
      [] label = "GraalVM" ->
           <<"G","r","a","a","l","V","M">>
      [] label = "BellSoft Liberica" ->
           <<"B","e","l","l","S","o","f","t"," ","L","i","b","e","r","i","c","a">>
      [] label = "Acme" ->
           <<"A","c","m","e">>
      [] label = "Unknown" ->
           <<"U","n","k","n","o","w","n">>
      [] OTHER -> <<>>

\* The predicate of filter_by_supplier.
SupplierMatches(java_info, supplier_lower) ==
    Contains(to_lowercase(Chars(java_info.suppliers)), supplier_lower)

RECURSIVE FilterSupplier(_, _)
FilterSupplier(list, supplier_lower) ==
    IF list = <<>> THEN <<>>
    ELSE (IF SupplierMatches(Head(list), supplier_lower)
          THEN <<Head(list)>> ELSE <<>>)
         \o FilterSupplier(Tail(list), supplier_lower)

\* JavaManager::filter_by_supplier
filter_by_supplier(m, supplier) ==
    FilterSupplier(m.java_installations, to_lowercase(supplier))

RECURSIVE FilterArchitecture(_, _)
FilterArchitecture(list, architecture) ==
    IF list = <<>> THEN <<>>
    ELSE (IF Head(list).architecture = architecture
          THEN <<Head(list)>> ELSE <<>>)
         \o FilterArchitecture(Tail(list), architecture)

\* JavaManager::filter_by_architecture
filter_by_architecture(m, architecture) ==
    FilterArchitecture(m.java_installations, architecture)

\* JavaManager::len
len(m) == Len(m.java_installations)

\* The outcome of a call that may run an executable: its result and the
\* paths of the commands it spawned, in order.
Run(result, spawned) == [result |-> result, spawned |-> spawned]

\* JavaInfo::execute_with_output (src/info.rs): Command::new(&self.path) is
\* spawned; when the host cannot run it the error is passed on, otherwise
\* the text the executable writes is returned.
execute_with_output(h, java_info) ==
    Run(IF Behaviour(h, java_info.path).spawn
        THEN Ok(<<"output", java_info.path>>) ELSE Err("spawn"),
        <<java_info.path>>)

\* Option::ok_or_else(NotFound)?.execute_with_output(args)
ExecuteSelected(h, selected) ==
    IF selected = None THEN Run(Err("NotFound"), <<>>)
    ELSE execute_with_output(h, Unwrap(selected))

\* JavaManager::execute_default
execute_default(h, m) == ExecuteSelected(h, get_default(m))

\* Mutant: a version is run on the default record.
execute_with_version_on_default(h, m, version) == execute_default(h, m)

\* JavaManager::execute_with_version
execute_with_version(h, m, version) ==
    ExecuteSelected(h, get_by_version(m, version))

\* *summary.entry(version).or_insert(0) += 1
EntryIncrement(summary, version) ==
    IF version \in DOMAIN summary
    THEN [summary EXCEPT ![version] = @ + 1]
    ELSE [k \in DOMAIN summary \cup {version} |->
             IF k = version THEN 1 ELSE summary[k]]

\* Mutant: a record without major version is counted under 0.
SummaryStep_unparsed_as_zero(summary, version) ==
    EntryIncrement(summary, UnwrapOr(version, 0))

\* The body of the loop of get_version_summary, given the major version of
\* the record.
SummaryStep(summary, version) ==
    IF IsSome(version) THEN EntryIncrement(summary, Unwrap(version))
    ELSE summary

RECURSIVE SummaryLoop(_, _)
SummaryLoop(list, summary) ==
    IF list = <<>> THEN summary
    ELSE SummaryLoop(Tail(list),
                     SummaryStep(summary, get_major_version(Head(list))))

\* JavaManager::get_version_summary
get_version_summary(m) == SummaryLoop(m.java_installations, <<>>)

\* Mutant: clear forgets the default.
mgr_clear_keep_default(m) == Manager(<<>>, m.default_index, <<>>)

\* Mutant: clear forgets the version map.
mgr_clear_keep_map(m) == Manager(<<>>, None, m.version_map)

\* JavaManager::clear
mgr_clear(m) == Manager(<<>>, None, <<>>)

RECURSIVE AddAll(_, _)
AddAll(m, installations) ==
    IF installations = <<>> THEN m
    ELSE AddAll(mgr_add(m, Head(installations)), Tail(installations))

\* Mutant: the default is left as add set it.
DefaultToFirst_untouched(m) == m

\* The end of JavaManager::discover_installations: the first installation
\* becomes the default if any exist.
DefaultToFirst(m) ==
    IF m.java_installations # <<>> THEN [m EXCEPT !.default_index = Some(0)]
    ELSE m

\* JavaManager::discover_installations, given the result of
\* find_all_java_installations: an Err is returned by `?` before anything
\* is added.
mgr_discover_installations(m, result) ==
    IF ~result.ok THEN [m |-> m, ret |-> result]
    ELSE [m |-> DefaultToFirst(AddAll(m, result.val)), ret |-> Ok(<<>>)]

\* ------------------------------------------ the home lookup (src/lib.rs)

\* What the lookup reads besides JAVA_HOME: the symbolic links of the file
\* system (links: the target of each path that is a link) and the outcome
\* of running `which java` (whether it can be run, whether its standard
\* output is UTF-8, and the output).
Fs(links, spawn, utf8, stdout) ==
    [links |-> links, which |-> [spawn |-> spawn, utf8 |-> utf8, stdout |-> stdout]]

NoLinks == Fs(<<>>, FALSE, FALSE, <<>>)

\* The call of follow_symlinks in progress: its caller, its argument and
\* the local test_path; pc is "follow" inside the while loop, and turn is
\* the number of turns the loop has taken, modulo 2.
Walk(pc, caller, arg, test_path, turn) ==
    [pc |-> pc, caller |-> caller, arg |-> arg, test_path |-> test_path,
     turn |-> turn]

Idle == Walk("idle", "", <<>>, <<>>, 0)

\* Path::read_link: Ok(target) for a symbolic link, Err for anything else.
read_link(f, path) ==
    IF path \in DOMAIN f.links THEN Ok(f.links[path]) ELSE Err("read_link")

\* PathBuf::pop: truncate to the parent, if there is one.
pop(path) == IF IsSome(Parent(path)) THEN Unwrap(Parent(path)) ELSE path

\* PathBuf::push: an absolute argument replaces the path.
push(path, arg) == IF HasRoot(arg) THEN arg ELSE Join(path, arg)

\* The body of the while loop of follow_symlinks, for the target `path`
\* that read_link returned.
LinkStep(test_path, path) ==
    IF HasRoot(path) THEN path ELSE push(pop(test_path), path)

\* Mutant: the empty path is let through.
java_exec_path_validation_accepting(path) == Ok(<<>>)

java_exec_path_validation(path) ==
    IF path = <<>>
    THEN Err("Java is not installed or not in the system PATH")
    ELSE Ok(<<>>)

\* do_locate_java_home (Unix) up to the call of follow_symlinks: the error
\* it returns, or Ok of the path it follows.
PathToFollow(java_exec_path, validation) ==
    IF validation.ok THEN Ok(java_exec_path) ELSE validation

WhichJava(which) ==
    IF ~which.spawn THEN Err("Failed to run command which")
    ELSE IF ~which.utf8 THEN Err("Utf8Error")
    ELSE PathToFollow(trim(which.stdout),
                      java_exec_path_validation(trim(which.stdout)))

\* do_locate_java_home (Unix) after follow_symlinks returned home_path.
HomeOf(home_path) == Ok(pop(pop(home_path)))

\* The first two arms of locate_java_home: JAVA_HOME is returned as it is
\* when it is set and not empty.
UsesJavaHome(h) == h.java_home # None /\ Unwrap(h.java_home) # <<>>

\* ------------------------------------------------------ the state machine

\* Values of JAVA_HOME and PATH (None: the variable is not set).
HOME_j17 == <<"/","u","s","r","/","l","i","b","/","j","v","m","/","j","1","7">>
HOME_j8 == <<"/","u","s","r","/","l","i","b","/","j","v","m","/","j","8">>
PATH_usrbin == <<"/","u","s","r","/","b","i","n">>
PATH_two == <<"/","o","p","t","/","b","i","n","/","x",":","/","u","s","r","/","b","i","n">>

JavaHomes == {None, Some(<<>>), Some(HOME_j17), Some(HOME_j8)}

PathVars == {None, Some(PATH_usrbin), Some(PATH_two)}

\* Largest number of files of FileUniverse on a host.
MaxFiles == 2

Hosts ==
    {[java_home |-> jh, path_var |-> pv, files |-> file_set] :
        jh \in JavaHomes, pv \in PathVars,
        file_set \in {s \in SUBSET FileUniverse : Cardinality(s) <= MaxFiles}}

\* The hosts the registry is exercised on.
ManagerHosts ==
    {[java_home |-> None, path_var |-> Some(PATH_usrbin), files |-> file_set] :
        file_set \in {{}, {F_j17}, {F_j17, F_j8jre}, {F_optbin, F_optjre}}}

\* The records a caller adds directly.
AddUniverse ==
    {JavaInfo(S_java, F_j17, V_17, "64-bit", "OpenJDK"),
     JavaInfo(S_java, F_optjre, V_17, "Unknown", "Acme"),
     JavaInfo(S_java, F_j8jre, V_8, "64-bit", "Oracle"),
     JavaInfo(S_java, F_optbin, V_invalid, "32-bit", "GraalVM")}

\* The suppliers and architectures asked for.
SupplierQueries == {<<>>, <<"o","p","e","n">>, <<"O","R","A","C","L","E">>, <<"a">>}

ArchitectureQueries == {"64-bit", "32-bit", "Unknown"}

\* The major versions asked for.
VersionUniverse == {0, 8, 11, 17}

Cur == Manager(java_installations, default_index, version_map)

\* The operation that produced a state: its name, argument, return value
\* and the registry it was called on.
Op(name, arg, ret) == [name |-> name, arg |-> arg, ret |-> ret, before |-> Cur]

SetManager(m) ==
    /\ java_installations' = m.java_installations
    /\ default_index' = m.default_index
    /\ version_map' = m.version_map

InitOn(hosts, file_systems) ==
    /\ host \in hosts
    /\ java_installations = new.java_installations
    /\ default_index = new.default_index
    /\ version_map = new.version_map
    /\ found = None
    /\ info = None
    /\ last_op = [name |-> "new", arg |-> <<>>, ret |-> <<>>, before |-> new]
    /\ added_directly = FALSE
    /\ fs \in file_systems
    /\ walk = Idle

InitWith(hosts) == InitOn(hosts, {NoLinks})

add ==
    \E java_info \in AddUniverse :
        /\ Len(java_installations) < MaxInstallations
        /\ SetManager(mgr_add(Cur, java_info))
        /\ last_op' = Op("add", java_info, <<>>)
        /\ added_directly' = TRUE
        /\ UNCHANGED <<fs, walk, host, found, info>>

DiscoverSet(call, r) ==
    /\ Len(r.m.java_installations) <= MaxInstallations
    /\ SetManager(r.m)
    /\ found' = Some(call)
    /\ last_op' = Op("discover_installations", <<>>, r.ret)
    /\ UNCHANGED <<fs, walk, host, info, added_directly>>

DiscoverWith(call) ==
    DiscoverSet(call, mgr_discover_installations(Cur, call.result))

discover_installations ==
    \E order \in Orders(host) :
        DiscoverWith(find_all_java_installations(host, order))

SetDefaultResult(name, arg, r) ==
    /\ SetManager(r.m)
    /\ last_op' = Op(name, arg, r.ret)
    /\ UNCHANGED <<fs, walk, host, found, info, added_directly>>

set_default ==
    \E index \in 0..MaxInstallations :
        SetDefaultResult("set_default", index, mgr_set_default(Cur, index))

set_default_by_version ==
    \E version \in VersionUniverse :
        SetDefaultResult("set_default_by_version", version,
                         mgr_set_default_by_version(Cur, version))

clear ==
    /\ SetManager(mgr_clear(Cur))
    /\ last_op' = Op("clear", <<>>, <<>>)
    /\ added_directly' = FALSE
    /\ UNCHANGED <<fs, walk, host, found, info>>

\* A call of find_all_java_installations on the host.
call_find_all_java_installations ==
    \E order \in Orders(host) :
        /\ found' = Some(find_all_java_installations(host, order))
        /\ last_op' = Op("find_all_java_installations", <<>>, <<>>)
        /\ UNCHANGED <<fs, walk, host, java_installations, default_index, version_map,
                       info, added_directly>>

\* A call of get_java_info on a path of the host.
call_get_java_info ==
    \E java_exec_path \in host.files :
        /\ info' = Some(get_java_info(host, java_exec_path))
        /\ last_op' = Op("get_java_info", java_exec_path, <<>>)
        /\ UNCHANGED <<fs, walk, host, java_installations, default_index, version_map,
                       found, added_directly>>

Init == InitWith(ManagerHosts)

Next ==
    \/ add
    \/ discover_installations
    \/ set_default
    \/ set_default_by_version
    \/ clear

\* The registry, driven by its callers on a fixed host.
Spec == Init /\ [][Next]_vars

InitDiscovery == InitWith(Hosts)

NextDiscovery ==
    \/ call_find_all_java_installations
    \/ call_get_java_info

\* The discovery engine and the prober, on every host of Hosts.
SpecDiscovery == InitDiscovery /\ [][NextDiscovery]_vars

\* Paths of the link universe: what `which` finds, an alternatives link and
\* the executable of an installation.
P_which == <<"/","b","/","j","a","v","a">>
P_alt == <<"/","e","/","j","a","v","a">>
P_real == <<"/","j","/","b","i","n","/","j","a","v","a">>

\* Targets of links: the three paths, and two relative ones.
T_java == <<"j","a","v","a">>
T_rel == <<"r","/","j","a","v","a">>

LinkTargets == {P_which, P_alt, P_real, T_java, T_rel}

\* The link tables: P_which and P_alt are links or not.
LinkTables ==
    UNION {[names -> LinkTargets] : names \in SUBSET {P_which, P_alt}}

\* Outputs of `which java`.
WhichOutputs ==
    {<<>>, <<"\n">>, <<" ", "\n">>, P_which \o <<"\n">>, <<" ">> \o P_alt \o <<"\n">>}

FsUniverse ==
    {Fs(links, TRUE, TRUE, stdout) : links \in LinkTables, stdout \in WhichOutputs}
    \cup {Fs(links, FALSE, FALSE, <<>>) : links \in LinkTables}
    \cup {Fs(links, TRUE, FALSE, <<>>) : links \in LinkTables}

\* The result of locate_java_home and whether a system command was run.
LocateReturn(result, spawned) == [result |-> result, spawned |-> spawned]

LocateFrame ==
    UNCHANGED <<host, java_installations, default_index, version_map,
                found, info, added_directly, fs>>

\* locate_java_home with JAVA_HOME set and not empty.
locate_from_env ==
    /\ walk.pc = "idle"
    /\ UsesJavaHome(host)
    /\ last_op' = Op("locate_java_home", <<>>,
                     LocateReturn(Ok(Unwrap(host.java_home)), FALSE))
    /\ UNCHANGED walk
    /\ LocateFrame

\* locate_java_home through do_locate_java_home, which either fails before
\* it follows links or enters follow_symlinks.
LookupStarts(r) ==
    IF r.ok
    THEN /\ walk' = Walk("follow", "locate_java_home", r.val, r.val, 0)
         /\ UNCHANGED last_op
    ELSE /\ last_op' = Op("locate_java_home", <<>>, LocateReturn(r, TRUE))
         /\ UNCHANGED walk

locate_by_lookup ==
    /\ walk.pc = "idle"
    /\ ~UsesJavaHome(host)
    /\ LookupStarts(WhichJava(fs.which))
    /\ LocateFrame

\* A direct call of follow_symlinks.
call_follow_symlinks ==
    \E path \in {P_which, P_alt, P_real} :
        /\ walk.pc = "idle"
        /\ walk' = Walk("follow", "follow_symlinks", path, path, 0)
        /\ UNCHANGED last_op
        /\ LocateFrame

\* One turn of the while loop: read_link returned Ok.
follow_link ==
    /\ walk.pc = "follow"
    /\ read_link(fs, walk.test_path).ok
    /\ walk' = [walk EXCEPT !.test_path =
                    LinkStep(walk.test_path, read_link(fs, walk.test_path).val),
                                !.turn = (@ + 1) % 2]
    /\ UNCHANGED last_op
    /\ LocateFrame

\* The loop ends: read_link returned Err, follow_symlinks returns test_path
\* and its caller goes on.
follow_return ==
    /\ walk.pc = "follow"
    /\ ~read_link(fs, walk.test_path).ok
    /\ walk' = Idle
    /\ last_op' = IF walk.caller = "follow_symlinks"
                  THEN Op("follow_symlinks", walk.arg, walk.test_path)
                  ELSE Op("locate_java_home", <<>>,
                          LocateReturn(HomeOf(walk.test_path), TRUE))
    /\ LocateFrame

InitLocate ==
    InitOn({[java_home |-> jh, path_var |-> None, files |-> {}] :
               jh \in JavaHomes},
           FsUniverse)

NextLocate ==
    \/ locate_from_env
    \/ locate_by_lookup
    \/ call_follow_symlinks
    \/ follow_link
    \/ follow_return

\* The home lookup on every file system of FsUniverse.  A call that has
\* entered the loop of follow_symlinks keeps running: the loop has no
\* blocking step.
SpecLocate ==
    /\ InitLocate
    /\ [][NextLocate]_vars
    /\ WF_vars(follow_link)
    /\ WF_vars(follow_return)

\* The lines a -version text is made of, and the texts.
LineUniverse ==
    {L_java, L_openjdk, L_adopt, L_adoptium, L_oracle, L_azul, L_graalvm}

RECURSIVE Texts(_)
Texts(n) ==
    IF n = 0 THEN {<<>>}
    ELSE Texts(n - 1) \cup
         {Append(text, line) :
             text \in {x \in Texts(n - 1) : Len(x) = n - 1}, line \in LineUniverse}

\* Executables that run and print a -version text of Texts.
ExeUniverse ==
    {Exe(TRUE, TRUE, text, FALSE, FALSE, TRUE, <<>>, java_vendor) :
        text \in Texts(MaxLines), java_vendor \in {None, Some("Acme")}}

\* The segments version strings are made of, and the version strings.
SegmentUniverse ==
    {<<>>,
     <<"1">>,
     <<"8">>,
     <<"1","1">>,
     <<"0","1","7">>,
     <<"+","8">>,
     <<"x">>,
     <<"0","_","3","1","2">>,
     <<"4","2","9","4","9","6","7","2","9","6">>,
     <<"8","x">>}

RECURSIVE VersionStrings(_)
VersionStrings(n) ==
    IF n = 1 THEN SegmentUniverse
    ELSE VersionStrings(n - 1) \cup
         {version \o <<".">> \o segment :
             version \in VersionStrings(n - 1), segment \in SegmentUniverse}

\* A call of get_major_version on a record of the given version.
call_get_major_version ==
    \E version \in VersionStrings(MaxSegments) :
        /\ last_op' = Op("get_major_version", version,
                         get_major_version(JavaInfo(S_java, F_usrbin, version,
                                                    "64-bit", "OpenJDK")))
        /\ UNCHANGED <<fs, walk, host, java_installations, default_index, version_map,
                       found, info, added_directly>>

\* Installation roots, the executable under a root, and the paths
\* get_java_home is called on.
RootUniverse ==
    {<<"/","o","p","t","/","j","d","k">>,
     <<"/","u","s","r">>,
     <<"/">>,
     <<"j","d","k">>,
     <<".">>,
     <<".",".">>,
     <<"/","o","p","t","/","j","d","k","/">>,
     <<"/","o","p","t","/","j","d","k","/",".">>,
     <<"/","o","p","t","/","/","j","d","k">>,
     <<"/","o","p","t","/","b","i","n">>,
     <<".","/","j","d","k">>}

ExecutableUnder(root) == root \o <<"/">> \o S_bin \o <<"/">> \o S_java

PathUniverse ==
    {ExecutableUnder(root) : root \in RootUniverse} \cup
    {<<"j","a","v","a">>,
     <<"/","j","a","v","a">>,
     <<"b","i","n","/","j","a","v","a">>,
     <<"/","o","p","t","/","j","d","k","/","j","r","e","/","j","a","v","a">>,
     <<"/","o","p","t","/","s","b","i","n","/","j","a","v","a">>,
     <<"/","o","p","t","/","j","d","k","/","b","i","n","/","j","a","v","a","/">>,
     <<"b","i","n">>,
     <<>>}

\* A call of get_java_home on a record of the given path.
call_get_java_home ==
    \E path \in PathUniverse :
        /\ last_op' = Op("get_java_home", path,
                         get_java_home(JavaInfo(S_java, path, V_17,
                                                "64-bit", "OpenJDK")))
        /\ UNCHANGED <<fs, walk, host, java_installations, default_index, version_map,
                       found, info, added_directly>>

\* A call of get_java_suppliers on an executable that behaves as b.
call_get_java_suppliers ==
    \E b \in ExeUniverse :
        /\ last_op' = Op("get_java_suppliers", b, SuppliersOf(b))
        /\ UNCHANGED <<fs, walk, host, java_installations, default_index, version_map,
                       found, info, added_directly>>

\* The lines a -XshowSettings:properties text is made of, and the texts.
PropertyLineUniverse == {PL_amd64, PL_x86, PL_name, PL_heading}

RECURSIVE PropertyTexts(_)
PropertyTexts(n) ==
    IF n = 0 THEN {<<>>}
    ELSE PropertyTexts(n - 1) \cup
         {Append(text, line) :
             text \in {x \in PropertyTexts(n - 1) : Len(x) = n - 1},
             line \in PropertyLineUniverse}

\* Executables the architecture probe is run on: one that cannot be run,
\* and those that run with every outcome of the -d64 and -d32 runs and
\* every property text.
ArchExeUniverse ==
    {NoSpawn} \cup
    {Exe(TRUE, TRUE, <<>>, d64, d32, props_utf8, text, None) :
        d64 \in BOOLEAN, d32 \in BOOLEAN, props_utf8 \in BOOLEAN,
        text \in PropertyTexts(MaxLines)}

\* A call of get_java_architecture on an executable that behaves as b.
call_get_java_architecture ==
    \E b \in ArchExeUniverse :
        /\ last_op' = Op("get_java_architecture", b, ArchitectureOf(b))
        /\ UNCHANGED <<fs, walk, host, java_installations, default_index, version_map,
                       found, info, added_directly>>

\* The lines the version scan is run on: a quoted version, a version
\* without quotes, a version line without version, a version with the
\* opening quote only, a line that is no version line, a quoted version
\* in a line with white space around it, and an empty quoted version.
VL_quoted == VersionLine(W_java, <<"9">>)
VL_bare == W_openjdk \o <<" ","v","e","r","s","i","o","n"," ","1","7"," ","x">>
VL_none == W_java \o <<" ","v","e","r","s","i","o","n">>
VL_open == W_java \o <<" ","v","e","r","s","i","o","n"," ","\"","8">>
VL_other == <<"j","r","e"," ","1","1"," ","b">>
VL_inner == <<" "," ">> \o VersionLine(<<"j","d","k">>, <<"2","1">>) \o <<" ">>
VL_empty == VersionLine(W_java, <<>>)

VersionLineUniverse ==
    {VL_quoted, VL_bare, VL_none, VL_open, VL_other, VL_inner, VL_empty}

RECURSIVE VersionTexts(_)
VersionTexts(n) ==
    IF n = 0 THEN {<<>>}
    ELSE VersionTexts(n - 1) \cup
         {Append(text, line) :
             text \in {x \in VersionTexts(n - 1) : Len(x) = n - 1},
             line \in VersionLineUniverse}

\* Executables the version probe is run on: one that cannot be run, and
\* those that run and print a text of VersionTexts, decodable or not.
VersionExeUniverse ==
    {NoSpawn} \cup
    {Exe(TRUE, ver_utf8, text, FALSE, FALSE, TRUE, <<>>, None) :
        ver_utf8 \in BOOLEAN, text \in VersionTexts(MaxLines)}

\* A call of get_java_version on an executable that behaves as b.
call_get_java_version ==
    \E b \in VersionExeUniverse :
        /\ last_op' = Op("get_java_version", b, VersionOf(b))
        /\ UNCHANGED <<fs, walk, host, java_installations, default_index, version_map,
                       found, info, added_directly>>

InitFunctions ==
    InitWith({[java_home |-> None, path_var |-> None, files |-> {}]})

NextFunctions ==
    \/ call_get_java_suppliers
    \/ call_get_major_version
    \/ call_get_java_home
    \/ call_get_java_architecture
    \/ call_get_java_version

\* The functions that depend on their argument only, on the inputs of the
\* universes above.
SpecFunctions == InitFunctions /\ [][NextFunctions]_vars

\* ------------------------------------------------------------ properties

\* Major version of a record, a record without one counting as 0.
MajorOr0(java_info) == UnwrapOr(get_major_version(java_info), 0)

\* No two records of a list have the same path.
NoDuplicatePaths(list) ==
    \A i, j \in 1..Len(list) : i # j => list[i].path # list[j].path

\* C1: in every reachable state of the registry, default_index is None or
\* an index strictly below the number of stored installations.
C1_DefaultIndexInBounds ==
    default_index = None \/ Unwrap(default_index) < Len(java_installations)

\* C1 witness: after a discovery and direct adds, set_default_by_version
\* has moved the default to the last of several records.
C1_Witness ==
    /\ last_op.name = "set_default_by_version"
    /\ last_op.ret = TRUE
    /\ found # None
    /\ added_directly
    /\ Len(java_installations) >= 2
    /\ default_index = Some(Len(java_installations) - 1)

\* C2: every position stored in version_map[v] is a valid index and the
\* record there has major version v; get_by_version(v) and
\* get_all_by_version(v) return only records of major version v.
C2_VersionMapValid ==
    /\ \A v \in DOMAIN version_map :
          \A k \in 1..Len(version_map[v]) :
             /\ version_map[v][k] < Len(java_installations)
             /\ get_major_version(java_installations[version_map[v][k] + 1])
                   = Some(v)
    /\ \A v \in VersionUniverse \cup DOMAIN version_map :
          /\ \A k \in 1..Len(get_by_version(Cur, v)) :
                get_major_version(get_by_version(Cur, v)[k]) = Some(v)
          /\ \A k \in 1..Len(get_all_by_version(Cur, v)) :
                get_major_version(get_all_by_version(Cur, v)[k]) = Some(v)

\* C2 witness: an add has put a second position into a bucket, in a
\* registry that also holds a record without a major version.
C2_Witness ==
    /\ last_op.name = "add"
    /\ \E v \in DOMAIN version_map :
          /\ Len(version_map[v]) >= 2
          /\ Len(get_all_by_version(Cur, v)) >= 2
    /\ \E i \in 1..Len(java_installations) :
          get_major_version(java_installations[i]) = None

\* C3 as stated: when the registry holds records and a default before
\* discover_installations, the default is the same after the call.
C3_Original ==
    (/\ last_op.name = "discover_installations"
     /\ last_op.before.java_installations # <<>>
     /\ last_op.before.default_index # None)
    => default_index = last_op.before.default_index

\* C3 amended: discover_installations sets the default to index 0 whenever
\* the registry holds a record after the call, whatever the default was
\* before; the default keeps its value (None) only when the registry is
\* empty after the call.
C3_DiscoverResetsDefault ==
    last_op.name = "discover_installations" =>
        IF java_installations # <<>>
        THEN default_index = Some(0)
        ELSE default_index = None /\ last_op.before.default_index = None

\* C3 witness: discover_installations ran on a registry whose default was
\* index 1, and the default is index 0 afterwards.
C3_Witness ==
    /\ last_op.name = "discover_installations"
    /\ last_op.before.default_index = Some(1)
    /\ Len(java_installations) > Len(last_op.before.java_installations)
    /\ default_index = Some(0)

\* C4 as stated: in a registry populated only by discover_installations,
\* no two stored installations have the same path after a discovery pass.
C4_Original ==
    (last_op.name = "discover_installations" /\ ~added_directly)
    => NoDuplicatePaths(java_installations)

\* The paths each phase of a discovery finds on host h, whatever the other
\* phases found: the executable under JAVA_HOME, the first good candidate
\* of each subdirectory of a common directory, the executable in each
\* piece of PATH.
Phase1Found(h) ==
    IF h.java_home = None \/ h.java_home = Some(<<>>) THEN {}
    ELSE {p \in {JavaHomeExec(Unwrap(h.java_home))} :
            Exists(h, p) /\ get_java_info(h, p).ok}

Phase2Dirs(h) ==
    {d \in UNION {{Join(get_platform_specific_java_paths[i], e) :
                     e \in ReadDir(h, get_platform_specific_java_paths[i])} :
                  i \in 1..Len(get_platform_specific_java_paths)} :
        IsDir(h, d)}

Phase2Found(h) ==
    {Unwrap(try_get_java_info_from_dir(h, d)).path :
        d \in {x \in Phase2Dirs(h) : IsSome(try_get_java_info_from_dir(h, x))}}

Phase3Found(h) ==
    IF h.path_var = None THEN {}
    ELSE {p \in {Join(PathDirs(Unwrap(h.path_var))[i], S_java) :
                   i \in 1..Len(PathDirs(Unwrap(h.path_var)))} :
            Exists(h, p) /\ get_java_info(h, p).ok}

AllFound(h) == Phase1Found(h) \cup Phase2Found(h) \cup Phase3Found(h)

EarliestPhase(h, path) ==
    IF path \in Phase1Found(h) THEN 1
    ELSE IF path \in Phase2Found(h) THEN 2
    ELSE 3

\* One record per found path, tagged with the earliest phase that found it.
OneRecordPerPath(h, list, phases) ==
    /\ NoDuplicatePaths(list)
    /\ {list[i].path : i \in 1..Len(list)} = AllFound(h)
    /\ \A i \in 1..Len(list) : phases[i] = EarliestPhase(h, list[i].path)

\* C5: the sequence returned by find_all_java_installations has no two
\* records with the same path; a path found in more than one phase has
\* exactly one record, the one of the earliest phase that found it.
C5_NoDuplicatePaths ==
    found # None =>
        OneRecordPerPath(host, Unwrap(found).result.val, Unwrap(found).phases)

\* C5 witness: a call returned several records, one of them for a path that
\* both the JAVA_HOME phase and the common-directory phase found.
C5_Witness ==
    /\ found # None
    /\ Len(Unwrap(found).result.val) >= 2
    /\ Phase1Found(host) \cap Phase2Found(host) # {}

\* Adjacent records: descending major version, ties by ascending path.
InOrder(a, b) ==
    /\ MajorOr0(a) >= MajorOr0(b)
    /\ MajorOr0(a) = MajorOr0(b) => StrCmp(a.path, b.path) <= 0

IsSorted(list) == \A i \in 1..(Len(list) - 1) : InOrder(list[i], list[i + 1])

\* C6: the sequence returned by find_all_java_installations is sorted by
\* descending major version, a record without a parseable major version
\* counting as 0, and records of equal major version by ascending path.
C6_SortedResult == found # None => IsSorted(Unwrap(found).result.val)

\* C6 witness: a call returned a sequence holding an adjacent pair of equal
\* major version and different paths, or a record without major version
\* behind one with a major version.
C6_Witness ==
    /\ found # None
    /\ \E i \in 1..(Len(Unwrap(found).result.val) - 1) :
          \/ /\ MajorOr0(Unwrap(found).result.val[i])
                  = MajorOr0(Unwrap(found).result.val[i + 1])
             /\ MajorOr0(Unwrap(found).result.val[i]) > 0
          \/ /\ get_major_version(Unwrap(found).result.val[i]) # None
             /\ get_major_version(Unwrap(found).result.val[i + 1]) = None

\* C7: on a fixed host find_all_java_installations returns the same
\* sequence whatever order the directories are read in, and so the same
\* sequence when it is called again.
C7_Deterministic ==
    found # None =>
        \A order \in Orders(host) :
            find_all_java_installations(host, order).result
                = Unwrap(found).result

\* C7 witness: a call returned on a host where two read orders make the
\* phases collect the records in different orders.
C7_Witness ==
    /\ found # None
    /\ \E o1, o2 \in Orders(host) :
          InfosOf(Collected(host, o1)) # InfosOf(Collected(host, o2))

\* Every record is the probe result of an existing executable.
AllProbed(h, list) ==
    \A i \in 1..Len(list) :
        /\ Exists(h, list[i].path)
        /\ get_java_info(h, list[i].path) = Ok(list[i])

PATH_LIST_SEPARATOR == ":"

\* C9 as stated: for every directory D of PATH, the entries being separated
\* by the path-list separator, an executable that exists in D and probes
\* successfully has a record in the result.
C9_Original ==
    (found # None /\ host.path_var # None) =>
        \A k \in 1..Len(Split(Unwrap(host.path_var), PATH_LIST_SEPARATOR)) :
            (/\ Exists(host, Join(Split(Unwrap(host.path_var),
                                        PATH_LIST_SEPARATOR)[k], S_java))
             /\ get_java_info(host, Join(Split(Unwrap(host.path_var),
                                        PATH_LIST_SEPARATOR)[k], S_java)).ok)
            => \E i \in 1..Len(Unwrap(found).result.val) :
                  Unwrap(found).result.val[i].path
                     = Join(Split(Unwrap(host.path_var),
                                  PATH_LIST_SEPARATOR)[k], S_java)

\* C10 as stated: whenever get_java_version succeeds for an executable,
\* get_java_info returns a record.
C10_Original ==
    (last_op.name = "get_java_info" /\ get_java_version(host, last_op.arg).ok)
    => Unwrap(info).ok

\* get_java_info's result r against the results of the three sub-probes.
AllOrNothing(r, path, version, architecture, suppliers) ==
    /\ r.ok <=> (version.ok /\ architecture.ok /\ suppliers.ok)
    /\ r.ok => /\ r.val.path = path
               /\ r.val.version = version.val
               /\ r.val.architecture = architecture.val
               /\ r.val.suppliers = suppliers.val
    /\ ~r.ok => r \in {version, architecture, suppliers}

\* C10 amended: get_java_info fails when any of the version, architecture
\* and vendor sub-probes fails, with that sub-probe's error; it returns a
\* record exactly when all three succeed, and the record carries their
\* values ("Unknown" only where the sub-probe itself returned it).
C10_FailsWithAnySubProbe ==
    last_op.name = "get_java_info" =>
        AllOrNothing(Unwrap(info), last_op.arg,
                     get_java_version(host, last_op.arg),
                     get_java_architecture(host, last_op.arg),
                     get_java_suppliers(host, last_op.arg))

\* C10 witness: get_java_info failed on an executable whose version
\* sub-probe succeeds.
C10_Witness ==
    /\ last_op.name = "get_java_info"
    /\ get_java_version(host, last_op.arg).ok
    /\ ~Unwrap(info).ok

\* A line of the text contains "adopt", whatever the case.
MentionsAdopt(lines) ==
    \E i \in 1..Len(lines) : Contains(to_lowercase(lines[i]), M_adopt)

\* C11 as stated: for a -version text that contains "adopt" anywhere,
\* get_java_suppliers does not return the label "OpenJDK", also when an
\* earlier line contains "openjdk" without "adopt".
C11_Original ==
    (last_op.name = "get_java_suppliers" /\ MentionsAdopt(last_op.arg.ver_lines))
    => last_op.ret # Ok("OpenJDK")

\* The effect of add(java_info) on the list and the default of `before`.
AddEffect(before, java_info) ==
    /\ java_installations = Append(before.java_installations, java_info)
    /\ java_installations[Len(before.java_installations) + 1] = java_info
    /\ IF before.default_index = None
       THEN default_index = Some(Len(before.java_installations))
       ELSE default_index = before.default_index
    /\ IF before.java_installations = <<>>
       THEN default_index = Some(0)
       ELSE default_index = before.default_index

\* C12: add appends the record at position len and makes that position the
\* default only if there is no default: the first record of an empty
\* registry becomes the default, every later add leaves the default alone.
C12_AddKeepsDefault ==
    last_op.name = "add" => AddEffect(last_op.before, last_op.arg)

\* C12 witness: an add on a registry of two records whose default was
\* position 1.
C12_Witness ==
    /\ last_op.name = "add"
    /\ Len(last_op.before.java_installations) = 2
    /\ last_op.before.default_index = Some(1)
    /\ Len(java_installations) = 3

\* The effect of set_default(index) on the registry `before`, and its
\* return value.
SetDefaultEffect(before, index, ret) ==
    /\ ret = (index < Len(before.java_installations))
    /\ java_installations = before.java_installations
    /\ version_map = before.version_map
    /\ IF index < Len(before.java_installations)
       THEN default_index = Some(index)
       ELSE default_index = before.default_index

\* C13: set_default(index) returns true and makes index the default exactly
\* when index < len; for index >= len it returns false and leaves the
\* default, the list and the version index as they were.
C13_SetDefaultChecked ==
    last_op.name = "set_default" =>
        SetDefaultEffect(last_op.before, last_op.arg, last_op.ret)

\* C13 witness: set_default(len) was refused on a registry of several
\* records whose default is position 1.
C13_Witness ==
    /\ last_op.name = "set_default"
    /\ last_op.arg = Len(java_installations)
    /\ last_op.ret = FALSE
    /\ Len(java_installations) >= 2
    /\ default_index = Some(1)

\* The positions (from 0) of the records of major version v, and the
\* records themselves in the order of the list.
PositionsOf(list, v) ==
    {i \in 0..(Len(list) - 1) : get_major_version(list[i + 1]) = Some(v)}

Lowest(S) == CHOOSE i \in S : \A j \in S : i <= j

RECURSIVE WithMajor(_, _)
WithMajor(list, v) ==
    IF list = <<>> THEN <<>>
    ELSE (IF get_major_version(Head(list)) = Some(v) THEN <<Head(list)>> ELSE <<>>)
         \o WithMajor(Tail(list), v)

\* The effect of set_default_by_version(v) on the registry `before`, and
\* its return value.
SetDefaultByVersionEffect(before, v, ret) ==
    /\ java_installations = before.java_installations
    /\ version_map = before.version_map
    /\ IF PositionsOf(java_installations, v) # {}
       THEN /\ ret = TRUE
            /\ default_index = Some(Lowest(PositionsOf(java_installations, v)))
            /\ get_default(Cur) = get_by_version(Cur, v)
            /\ get_default(Cur) # None
       ELSE /\ ret = FALSE
            /\ default_index = before.default_index

\* C14: set_default_by_version(v) returns true and makes the position of
\* the first-added record of major version v the default when there is
\* one, so that get_default equals get_by_version(v); otherwise it returns
\* false and leaves the default as it was.
C14_SetDefaultByVersion ==
    last_op.name = "set_default_by_version" =>
        SetDefaultByVersionEffect(last_op.before, last_op.arg, last_op.ret)

\* C14 witness: set_default_by_version moved the default from position 0
\* to the first of two records of the version asked for.
C14_Witness ==
    /\ last_op.name = "set_default_by_version"
    /\ last_op.ret = TRUE
    /\ last_op.before.default_index = Some(0)
    /\ Cardinality(PositionsOf(java_installations, last_op.arg)) = 2
    /\ default_index = Some(1)

\* get_by_version(v) on registry m is the record at the lowest position
\* among those of major version v, None when there is none.
FirstOfVersion(m, v) ==
    IF PositionsOf(m.java_installations, v) = {}
    THEN get_by_version(m, v) = None
    ELSE get_by_version(m, v) =
            Some(m.java_installations[Lowest(PositionsOf(m.java_installations, v)) + 1])

\* C15: get_by_version(v) returns the record with the lowest position among
\* the stored records of major version v, and None exactly when no stored
\* record has major version v.
C15_GetByVersionFirst == \A v \in VersionUniverse : FirstOfVersion(Cur, v)

\* C15 witness: two records of one major version with different paths are
\* stored behind a record of another version, and get_by_version returns
\* the one at position 1.
C15_Witness ==
    \E v \in VersionUniverse :
        /\ PositionsOf(java_installations, v) = {1, 2}
        /\ java_installations[2].path # java_installations[3].path
        /\ get_by_version(Cur, v) = Some(java_installations[2])
        /\ get_by_version(Cur, 0) = None

\* C16: get_all_by_version(v) returns exactly the stored records of major
\* version v, each once, in the order they were added; its length is the
\* number of records of that version added since the last clear, and it
\* is empty for a version no record has.
C16_GetAllByVersion ==
    \A v \in VersionUniverse :
        /\ get_all_by_version(Cur, v) = WithMajor(java_installations, v)
        /\ Len(get_all_by_version(Cur, v))
              = Cardinality(PositionsOf(java_installations, v))

\* C16 witness: two different records of one major version were added with
\* a record of another version between them, and the answer for a version
\* no record has is empty.
C16_Witness ==
    /\ added_directly
    /\ \E v \in VersionUniverse :
          /\ PositionsOf(java_installations, v) = {0, 2}
          /\ java_installations[1] # java_installations[3]
          /\ get_all_by_version(Cur, v)
                = <<java_installations[1], java_installations[3]>>
    /\ get_all_by_version(Cur, 11) = <<>>

\* The summary has a key for exactly the major versions held by a record
\* of the list, with the number of those records.
CountsPerVersion(summary, list) ==
    /\ \A v \in DOMAIN summary :
          /\ PositionsOf(list, v) # {}
          /\ summary[v] = Cardinality(PositionsOf(list, v))
    /\ \A i \in 1..Len(list) :
          get_major_version(list[i]) # None
             => Unwrap(get_major_version(list[i])) \in DOMAIN summary
    /\ \A v \in VersionUniverse :
          PositionsOf(list, v) = {} => v \notin DOMAIN summary

\* C17: get_version_summary maps each major version to the number of
\* stored records of that major version, has no key for a version no
\* record holds, and gives no entry to a record without a parseable major
\* version.
C17_VersionSummary ==
    CountsPerVersion(get_version_summary(Cur), java_installations)

\* C17 witness: the registry holds two records of one major version and a
\* record without major version; the summary has the one key, with 2.
C17_Witness ==
    /\ Len(java_installations) = 3
    /\ \E i \in 1..3 : get_major_version(java_installations[i]) = None
    /\ \E v \in VersionUniverse :
          /\ DOMAIN get_version_summary(Cur) = {v}
          /\ get_version_summary(Cur)[v] = 2

\* Every query on registry m answers as on an empty registry.
AnswersAsEmpty(m) ==
    /\ len(m) = 0
    /\ get_default(m) = None
    /\ \A i \in 0..MaxInstallations : get(m, i) = None
    /\ \A v \in VersionUniverse :
          get_by_version(m, v) = None /\ get_all_by_version(m, v) = <<>>
    /\ \A s \in SupplierQueries : filter_by_supplier(m, s) = <<>>
    /\ \A a \in ArchitectureQueries : filter_by_architecture(m, a) = <<>>
    /\ get_version_summary(m) = <<>>

\* An add on registry m puts the record at position 0 and makes it the
\* default, as on a new registry.
AddsAsNew(m) ==
    \A java_info \in AddUniverse :
        /\ mgr_add(m, java_info) = mgr_add(new, java_info)
        /\ get(mgr_add(m, java_info), 0) = Some(java_info)
        /\ mgr_add(m, java_info).default_index = Some(0)

\* C18: clear returns the registry to its just-constructed state: len is
\* 0, get_default, get(i) and get_by_version(v) return None,
\* get_all_by_version, the filters and the summary are empty, and a
\* following add behaves as on a new registry.
C18_ClearResets ==
    last_op.name = "clear" => Cur = new /\ AnswersAsEmpty(Cur) /\ AddsAsNew(Cur)

\* C18 witness: clear ran on a registry of three records with default
\* position 1 whose queries had answers.
C18_Witness ==
    /\ last_op.name = "clear"
    /\ len(last_op.before) = 3
    /\ last_op.before.default_index = Some(1)
    /\ get_by_version(last_op.before, 17) # None
    /\ filter_by_supplier(last_op.before, <<"o","p","e","n">>) # <<>>
    /\ filter_by_architecture(last_op.before, "64-bit") # <<>>
    /\ DOMAIN get_version_summary(last_op.before) # {}

\* The segments of a version string, read off the positions of its dots.
FirstDot(s) ==
    IF \A i \in 1..Len(s) : s[i] # "." THEN Len(s) + 1
    ELSE CHOOSE i \in 1..Len(s) :
            s[i] = "." /\ \A k \in 1..(i - 1) : s[k] # "."

FirstSegment(s) == SubSeq(s, 1, FirstDot(s) - 1)

HasSecondSegment(s) == FirstDot(s) <= Len(s)

SecondSegment(s) == FirstSegment(SubSeq(s, FirstDot(s) + 1, Len(s)))

\* The segment the major version is read from.
MajorSegment(s) ==
    IF FirstSegment(s) = <<"1">> /\ HasSecondSegment(s)
    THEN SecondSegment(s) ELSE FirstSegment(s)

\* A segment that is a number: one or more decimal digits.
IsNumber(segment) ==
    segment # <<>> /\ \A i \in 1..Len(segment) : IsDigit(segment[i])

\* The digits of a segment u32 parsing accepts, <<>> if it accepts none: an
\* optional '+' and then a number that is at most 4294967295.
AcceptedDigits(segment) ==
    IF segment # <<>> /\ Head(segment) = "+" /\ IsNumber(Tail(segment))
    THEN StripZeros(Tail(segment))
    ELSE IF IsNumber(segment) THEN StripZeros(segment)
    ELSE <<>>

FitsU32(digits) ==
    \/ Len(digits) < Len(U32MaxDigits)
    \/ Len(digits) = Len(U32MaxDigits) /\ StrCmp(digits, U32MaxDigits) <= 0

\* C19 as stated: get_major_version returns the numeric value of the second
\* segment when the first is "1" and a second exists, otherwise of the
\* first segment, and None when that segment is not a number.
C19_Original ==
    last_op.name = "get_major_version" =>
        IF IsNumber(MajorSegment(last_op.arg))
        THEN /\ last_op.ret # None
             /\ FitsU32(StripZeros(MajorSegment(last_op.arg)))
                   => last_op.ret
                        = Some(DigitsValue(StripZeros(MajorSegment(last_op.arg)), 0))
        ELSE last_op.ret = None

\* The value get_major_version returns for the digits u32 parsing accepts of
\* the major segment.
ValueOfAccepted(ret, digits) ==
    IF digits # <<>> /\ FitsU32(digits)
    THEN ret = Some(DigitsValue(digits, 0))
    ELSE ret = None

\* C19 amended: get_major_version splits the version on '.', and reads the
\* second segment when the first is "1" and a second exists, otherwise the
\* first; it returns the value of that segment when the segment is an
\* optional '+' followed by decimal digits whose value is at most
\* 4294967295, and None for every other segment.
C19_MajorVersionParsed ==
    last_op.name = "get_major_version" =>
        ValueOfAccepted(last_op.ret, AcceptedDigits(MajorSegment(last_op.arg)))

\* C19 witness: get_major_version read 8 from the second segment of a
\* version that starts with the segment "1".
C19_Witness ==
    /\ last_op.name = "get_major_version"
    /\ FirstSegment(last_op.arg) = <<"1">>
    /\ HasSecondSegment(last_op.arg)
    /\ last_op.ret = Some(8)

RECURSIVE StripTrailing(_)
StripTrailing(root) ==
    IF Len(root) > 1 /\ root[Len(root)] = "/"
    THEN StripTrailing(SubSeq(root, 1, Len(root) - 1))
    ELSE IF Len(root) > 1 /\ SubSeq(root, Len(root) - 1, Len(root)) = <<"/", ".">>
    THEN StripTrailing(SubSeq(root, 1, Len(root) - 1))
    ELSE root

OnlyWhitespace(s) == \A i \in 1..Len(s) : IsWhitespace(s[i])

\* What locate_java_home returned on host h and file system f.
LocateContract(h, f, ret) ==
    IF h.java_home # None /\ h.java_home # Some(<<>>)
    THEN ret = LocateReturn(Ok(Unwrap(h.java_home)), FALSE)
    ELSE /\ ret.spawned
         /\ (f.which.spawn /\ f.which.utf8 /\ OnlyWhitespace(f.which.stdout))
               => ~ret.result.ok

DelegatesTo(r, h, list, i) ==
    /\ r = execute_with_output(h, list[i + 1])
    /\ r.spawned = <<list[i + 1].path>>

\* The run fails with NotFound and no command was spawned.
NotFoundUnspawned(r) == r = Run(Err("NotFound"), <<>>)

\* C22: execute_default fails with NotFound without spawning when the
\* registry has no default, execute_with_version(v) fails with NotFound
\* without spawning when no stored record has major version v; otherwise
\* each runs the selected record: the default record, or the first stored
\* record of major version v.
C22_ExecuteDelegates ==
    /\ IF default_index = None
       THEN NotFoundUnspawned(execute_default(host, Cur))
       ELSE DelegatesTo(execute_default(host, Cur), host, java_installations,
                        Unwrap(default_index))
    /\ \A v \in VersionUniverse :
          IF PositionsOf(java_installations, v) = {}
          THEN NotFoundUnspawned(execute_with_version(host, Cur, v))
          ELSE DelegatesTo(execute_with_version(host, Cur, v), host,
                           java_installations,
                           Lowest(PositionsOf(java_installations, v)))

\* C22 witness: the default is record 0, two records of another major
\* version sit at positions 1 and 2; execute_default spawns the path of
\* record 0, execute_with_version the different path of record 1, and a
\* version no record has spawns nothing.
C22_Witness ==
    /\ default_index = Some(0)
    /\ \E v \in VersionUniverse :
          /\ PositionsOf(java_installations, v) = {1, 2}
          /\ execute_default(host, Cur).spawned = <<java_installations[1].path>>
          /\ execute_with_version(host, Cur, v).spawned
                = <<java_installations[2].path>>
          /\ java_installations[1].path # java_installations[2].path
    /\ execute_with_version(host, Cur, 0) = Run(Err("NotFound"), <<>>)

\* The -version text as one string: its lines with the line ends between
\* them.
RECURSIVE TextOf(_)
TextOf(lines) ==
    IF lines = <<>> THEN <<>>
    ELSE IF Len(lines) = 1 THEN Head(lines)
    ELSE Head(lines) \o <<"\n">> \o TextOf(Tail(lines))

\* The label of the marker that comes first in the priority order among
\* the markers found anywhere in the text, None when the text has none.
FirstInPriority(lines) == VendorOfLine(to_lowercase(TextOf(lines)))

\* C23 as stated: when the -version text contains vendor markers,
\* get_java_suppliers returns the label of the marker that comes first in
\* the priority order, whichever lines the markers are on.
C23_Original ==
    (/\ last_op.name = "get_java_suppliers"
     /\ FirstInPriority(last_op.arg.ver_lines) # None)
    => last_op.ret = Ok(Unwrap(FirstInPriority(last_op.arg.ver_lines)))

\* The line is a property line os.arch=<value>: the text before its first
\* "=" is os.arch, white space aside.
FirstEquals(line) == Lowest({k \in 1..Len(line) : line[k] = "="})

IsOsArchLine(line) ==
    /\ \E k \in 1..Len(line) : line[k] = "="
    /\ trim(SubSeq(line, 1, FirstEquals(line) - 1)) = <<"o","s",".","a","r","c","h">>

PropertyValue(line) == SubSeq(line, FirstEquals(line) + 1, Len(line))

OsArchLines(lines) == {i \in 1..Len(lines) : IsOsArchLine(lines[i])}

\* The classification of the third strategy on the property lines.
ByOsArch(lines) ==
    IF OsArchLines(lines) = {} THEN "Unknown"
    ELSE IF Contains(PropertyValue(lines[Lowest(OsArchLines(lines))]), <<"6","4">>)
    THEN "64-bit" ELSE "32-bit"

\* C24: get_java_architecture applies its strategies in order and stops at
\* the first that classifies: "64-bit" if the -d64 run exits with status
\* zero; else "32-bit" if the -d32 run does; else by the os.arch=<value>
\* property line, "64-bit" if the value contains "64" and "32-bit"
\* otherwise; else "Unknown". An Ok value is one of these three.
C24_ArchitectureStrategies ==
    last_op.name = "get_java_architecture" =>
        /\ last_op.ret.ok => last_op.ret.val \in {"64-bit", "32-bit", "Unknown"}
        /\ IF ~last_op.arg.spawn THEN ~last_op.ret.ok
           ELSE IF last_op.arg.d64 THEN last_op.ret = Ok("64-bit")
           ELSE IF last_op.arg.d32 THEN last_op.ret = Ok("32-bit")
           ELSE IF ~last_op.arg.props_utf8 THEN ~last_op.ret.ok
           ELSE last_op.ret = Ok(ByOsArch(last_op.arg.props_lines))

\* C24 witness: both flag runs fail and the property text has a line of
\* another property whose value contains "64" before the line
\* os.arch = x86: the answer is "32-bit".
C24_Witness ==
    /\ last_op.name = "get_java_architecture"
    /\ ~last_op.arg.d64 /\ ~last_op.arg.d32
    /\ last_op.arg.props_lines = <<PL_name, PL_x86>>
    /\ last_op.ret = Ok("32-bit")

\* The positions of the double quotes of a line.
QuotePositions(line) == {k \in 1..Len(line) : line[k] = "\""}

\* The text between the first pair of double quotes.
BetweenQuotes(line) ==
    SubSeq(line, Lowest(QuotePositions(line)) + 1,
           Lowest(QuotePositions(line) \ {Lowest(QuotePositions(line))}) - 1)

\* The positions of the words that contain "version" and have a word
\* after them.
VersionWords(words) ==
    {i \in 1..(Len(words) - 1) : Contains(words[i], <<"v","e","r","s","i","o","n">>)}

\* The token a trimmed version line yields, a token of the words counting
\* without double quotes at its ends: None when it yields none.
Yield(line, words) ==
    IF Cardinality(QuotePositions(line)) >= 2 THEN Some(BetweenQuotes(line))
    ELSE IF VersionWords(words) # {}
    THEN Some(trim_matches(words[Lowest(VersionWords(words)) + 1], "\""))
    ELSE IF Len(words) >= 3 THEN Some(trim_matches(words[3], "\""))
    ELSE None

YieldOf(line) == Yield(trim(line), split_whitespace(trim(line)))

\* The version lines of the text that yield a token.
Yielding(lines) ==
    {i \in 1..Len(lines) : IsVersionLine(lines[i]) /\ YieldOf(lines[i]) # None}

\* C25: get_java_version returns the token of the first line of the
\* -version text that yields one, trying on each version line the text
\* between the first pair of double quotes, then the token right after a
\* word containing "version", then the third token; a version line that
\* yields none does not stop the scan, and the function fails exactly
\* when no line yields a token.
C25_VersionOfFirstYieldingLine ==
    (/\ last_op.name = "get_java_version"
     /\ last_op.arg.spawn
     /\ last_op.arg.ver_utf8)
    => IF Yielding(last_op.arg.ver_lines) = {}
       THEN ~last_op.ret.ok
       ELSE last_op.ret =
               Ok(Unwrap(YieldOf(last_op.arg.ver_lines[
                                    Lowest(Yielding(last_op.arg.ver_lines))])))

\* C25 witness: the first line is a version line without a token, the
\* second has no pair of quotes and gives its version as the word after
\* "version".
C25_Witness ==
    /\ last_op.name = "get_java_version"
    /\ last_op.arg.ver_lines = <<VL_none, VL_bare>>
    /\ last_op.ret = Ok(<<"1","7">>)

\* The parent directory of the path is named bin.
ParentNamedBin(path) ==
    IsSome(Parent(path)) /\ EndsWith(Unwrap(Parent(path)), S_bin)

\* C26 as stated: get_java_home returns the executable path unchanged for
\* /usr/bin/java, as for every path whose parent directory is not named
\* bin.
C26_Original ==
    (/\ last_op.name = "get_java_home"
     /\ \/ last_op.arg = ExecutableUnder(<<"/","u","s","r">>)
        \/ ~ParentNamedBin(last_op.arg))
    => last_op.ret = last_op.arg

\* C27 as stated: follow_symlinks terminates on every finite file system,
\* link cycles included: a call that has entered the loop returns.
C27_Original == (walk.pc = "follow") ~> (walk.pc = "idle")

\* The candidates of a subdirectory, in the order they are tried.
Candidates(dir_path) ==
    << dir_path \o <<"/">> \o S_bin \o <<"/">> \o S_java,
       dir_path \o <<"/">> \o S_jre \o <<"/">> \o S_bin \o <<"/">> \o S_java,
       dir_path \o <<"/">> \o S_Contents \o <<"/">> \o S_Home \o <<"/">> \o S_bin
                \o <<"/">> \o S_java >>

\* The numbers of the candidates that exist and probe successfully.
Accepted(h, dir_path) ==
    {n \in 1..3 : /\ Exists(h, Candidates(dir_path)[n])
                  /\ get_java_info(h, Candidates(dir_path)[n]).ok}

\* What the scan of one subdirectory gives: nothing when no candidate is
\* accepted, else the record of the accepted candidate tried first.
RecordOfFirstAccepted(h, dir_path, java_info) ==
    IF Accepted(h, dir_path) = {} THEN java_info = None
    ELSE java_info =
            Some(get_java_info(h, Candidates(dir_path)[Lowest(Accepted(h, dir_path))]).val)

\* C28: for each subdirectory of a common installation root the candidates
\* bin/java, jre/bin/java, Contents/Home/bin/java are tried in this order
\* and at most one record is produced: that of the first candidate that
\* exists and probes successfully, also when an earlier candidate exists
\* and fails its probe; the record is in the result of the discovery.
C28_FirstAcceptedCandidate ==
    \A dir_path \in Phase2Dirs(host) :
        /\ RecordOfFirstAccepted(host, dir_path,
                                 try_get_java_info_from_dir(host, dir_path))
        /\ (found # None /\ Accepted(host, dir_path) # {})
              => \E i \in 1..Len(Unwrap(found).result.val) :
                    Unwrap(found).result.val[i].path
                       = Candidates(dir_path)[Lowest(Accepted(host, dir_path))]

\* C28 witness: a subdirectory holds bin/java, whose probe fails, and a
\* later candidate, whose probe succeeds; the discovery has run and
\* returned the one record of the later candidate.
C28_Witness ==
    /\ found # None
    /\ \E dir_path \in Phase2Dirs(host) :
          /\ Exists(host, Candidates(dir_path)[1])
          /\ Accepted(host, dir_path) = {3}
          /\ Len(Unwrap(found).result.val) = 1
          /\ Unwrap(found).result.val[1].path = Candidates(dir_path)[3]

\* C29: in every reachable state of the registry, default_index is None
\* exactly when the list is empty: a registry with a record has a default,
\* and get_default returns Some exactly when len > 0.
C29_DefaultIffNonEmpty ==
    /\ (default_index = None) <=> (java_installations = <<>>)
    /\ IsSome(get_default(Cur)) <=> (len(Cur) > 0)

\* C29 witness: clear ran on a registry that held records and a default;
\* afterwards the list is empty, the default is None and get_default
\* returns None.
C29_Witness ==
    /\ last_op.name = "clear"
    /\ Len(last_op.before.java_installations) >= 2
    /\ IsSome(get_default(last_op.before))
    /\ java_installations = <<>>
    /\ default_index = None
    /\ get_default(Cur) = None

\* The major versions that are a key of the summary, a key of version_map,
\* or asked for.
VersionKeys(m) ==
    VersionUniverse \cup DOMAIN get_version_summary(m) \cup DOMAIN m.version_map

\* The summary and the index agree on version v.
SummaryAgrees(m, summary, v) ==
    /\ (v \in DOMAIN summary)
          <=> (v \in DOMAIN m.version_map /\ m.version_map[v] # <<>>)
    /\ Len(get_all_by_version(m, v))
          = (IF v \in DOMAIN summary THEN summary[v] ELSE 0)

\* C30: in every reachable state of the registry and for every major
\* version v, the count get_version_summary gives for v equals the length
\* of get_all_by_version(v), and v is a key of the summary exactly when
\* version_map has a non-empty bucket for v.
C30_SummaryMatchesIndex ==
    \A v \in VersionKeys(Cur) : SummaryAgrees(Cur, get_version_summary(Cur), v)

\* C30 witness: two records of one major version and one of another are
\* stored; the summary counts 2 and 1, as long as the answers of
\* get_all_by_version.
C30_Witness ==
    /\ Len(java_installations) = 3
    /\ \E v, w \in VersionUniverse :
          /\ v # w
          /\ {v, w} \subseteq DOMAIN get_version_summary(Cur)
          /\ get_version_summary(Cur)[v] = 2
          /\ Len(get_all_by_version(Cur, v)) = 2
          /\ get_version_summary(Cur)[w] = 1
          /\ Len(get_all_by_version(Cur, w)) = 1


====
